---- MODULE Spec2Model ----
(***************************************************************************)
(* The operation session manager of GoogleKeymaster: the fixed-size        *)
(* operation table, the handles RAND_bytes draws for it, and the heap of   *)
(* Operation objects that BeginOperation creates and the table owns.       *)
(***************************************************************************)
EXTENDS Integers, FiniteSets, Sequences, TLC

\* ------------------------------------------------------------------ bounds
\* operation_table_size: the constructor's argument (the tests pass 5).
TableSize == 2
\* Operation handles are uint64; the model draws them from 0..MaxHandle.
MaxHandle == 2
\* Operation objects created over a run (caps BeginOperation).
MaxOps == 4
\* The longest key description a client sends.
MaxDescLen == 3
\* The largest KEY_SIZE a client asks for.
MaxKeySize == 1030
\* The largest value the clock gives CREATION_DATETIME.
MaxTime == 1
\* size_t has SizeModulus values (2^64 in the build): 0..SizeModulus - 1.
SizeModulus == 8
\* The longest input an UpdateOperationRequest carries.
MaxInput == 2
\* The bytes of a MAC (the digest's output length).
MaxMac == 2

\* ------------------------------------------------------------- vocabulary
NULL == 0
Slots == 1..TableSize
Handles == 0..MaxHandle
OpIds == 1..MaxOps

KM_ERROR_OK == "OK"
KM_ERROR_INVALID_OPERATION_HANDLE == "INVALID_OPERATION_HANDLE"
KM_ERROR_TOO_MANY_OPERATIONS == "TOO_MANY_OPERATIONS"
KM_ERROR_UNKNOWN_ERROR == "UNKNOWN_ERROR"
KM_ERROR_UNSUPPORTED_PURPOSE == "UNSUPPORTED_PURPOSE"
KM_ERROR_INVALID_KEY_BLOB == "INVALID_KEY_BLOB"
KM_ERROR_MEMORY_ALLOCATION_FAILED == "MEMORY_ALLOCATION_FAILED"
KM_ERROR_UNSUPPORTED_DIGEST == "UNSUPPORTED_DIGEST"
KM_ERROR_VERIFICATION_FAILED == "VERIFICATION_FAILED"

\* What the collaborators of the session manager can answer.
\* LoadKey: the key, or no key and the unseal error.
LoadKeyResults == {KM_ERROR_OK, KM_ERROR_INVALID_KEY_BLOB}
\* factory->CreateOperation: an operation, or NULL and an error.
CreateResults == {KM_ERROR_OK, KM_ERROR_MEMORY_ALLOCATION_FAILED}
\* operation->Begin.
BeginResults == {KM_ERROR_OK, KM_ERROR_UNSUPPORTED_DIGEST}
\* operation->Update (an OpenSSL failure is translated to an error).
UpdateResults == {KM_ERROR_OK, KM_ERROR_UNKNOWN_ERROR}
\* operation->Finish.
FinishResults == {KM_ERROR_OK, KM_ERROR_UNKNOWN_ERROR, KM_ERROR_VERIFICATION_FAILED}
\* operation->Abort: every implementation returns KM_ERROR_OK.
AbortResults == {KM_ERROR_OK}

Errors ==
    {KM_ERROR_OK, KM_ERROR_INVALID_OPERATION_HANDLE, KM_ERROR_TOO_MANY_OPERATIONS,
     KM_ERROR_UNKNOWN_ERROR, KM_ERROR_UNSUPPORTED_PURPOSE, KM_ERROR_INVALID_KEY_BLOB,
     KM_ERROR_MEMORY_ALLOCATION_FAILED, KM_ERROR_UNSUPPORTED_DIGEST,
     KM_ERROR_VERIFICATION_FAILED}

VARIABLES
    operation_table,  \* slot -> [handle, operation]; operation is an object id or NULL
    heap,             \* object id -> how many times the object has been deleted
    nextOp,           \* the id the next `new ...Operation` gets; ids below it exist
    issued,           \* handles that successful BeginOperation calls returned
    released,         \* issued handles for which Finish or Abort has returned
    last,             \* the last API call: its arguments and its response
    request,          \* the request the client holds: description, parameters, purpose
    key_blob,         \* the key blob the client holds (what a creation returned), or NoBlob
    created,          \* the enforced and unenforced sets the creating call returned
    response,         \* the response of the last key call
    wire,             \* a message, the bytes it was serialized to, and what they decode to
    state,            \* object id -> how far the Operation object has got in its life
    buffer,           \* a Buffer: buffer_, buffer_size_, read_position_, write_position_
    threads           \* the BeginOperation calls in progress at once, each with its locals

vars == <<operation_table, heap, nextOp, issued, released, last,
          request, key_blob, created, response, wire, state, buffer, threads>>

\* The session manager's state, and the state of the key calls and messages.
sessionvars == <<operation_table, heap, nextOp, issued, released, last, state>>
keyvars == <<request, key_blob, created, response, wire, buffer, threads>>

\* What the key variables hold while no key call has been made.
NoRequest == [call |-> "none"]
NoBlob == [sealed |-> FALSE]
NoSets == [enforced |-> <<>>, unenforced |-> <<>>]
NoResponse == [call |-> "none"]
NoWire == [type |-> "none"]
NoBuffer == [buffer_ |-> "none"]
NoThreads == <<>>

\* The life of an Operation object: not constructed ("none"), constructed
\* ("created"), its Begin returned OK ("begun"), an Update of it returned OK
\* ("updating"), its Finish was called ("finished"), its Abort was called
\* ("aborted").  The behaviours of LifeSpec record it; the others leave the
\* record empty.
NoStates == [p \in OpIds |-> "none"]

Untracked == <<>>

Becomes(p, s) == IF p \in DOMAIN state THEN [state EXCEPT ![p] = s] ELSE state

\* ------------------------------------------------------------ the table
\* An empty slot: what DeleteOperation leaves and AddOperation looks for.
EmptyEntry == [handle |-> 0, operation |-> NULL]

\* delete p; (delete of a null pointer does nothing)
Delete(h, p) == IF p = NULL THEN h ELSE [h EXCEPT ![p] = @ + 1]

FirstSlot(S) == CHOOSE i \in S : \A j \in S : i <= j

\* The entry holding op_handle (its slot), or NULL (0).
FindOperation(table, op_handle) ==
    IF op_handle = 0
    THEN NULL
    ELSE LET hits == {i \in Slots : table[i].handle = op_handle}
         IN  IF hits = {} THEN NULL ELSE FirstSlot(hits)

DeleteOperation_KeepsEntry(table, h, entry) ==
    [table |-> table, heap |-> Delete(h, table[entry].operation)]

DeleteOperation_KeepsHandle(table, h, entry) ==
    [table |-> [table EXCEPT ![entry] = [handle |-> @.handle, operation |-> NULL]],
     heap  |-> Delete(h, table[entry].operation)]

DeleteOperation(table, h, entry) ==
    [table |-> [table EXCEPT ![entry] = [handle |-> 0, operation |-> NULL]],
     heap  |-> Delete(h, table[entry].operation)]

FreeSlots_All(table) == Slots

\* The slots AddOperation may take: operation_table_[i].operation == NULL.
FreeSlots(table) == {i \in Slots : table[i].operation = NULL}

TableFull(table) == FreeSlots(table) = {}

LiveHandles(table) == {table[i].handle : i \in Slots \ FreeSlots(table)}

\* AddOperation(operation, &op_handle): randRet is what RAND_bytes returns and
\* draw what the 8 bytes at op_handle hold after the call (RAND_bytes writes
\* through the response's op_handle; what a failed call leaves there is not
\* specified, so it is any value).  The UniquePtr `op` deletes the operation
\* on every return that has not released it.  No branch compares the draw
\* with the handles the table holds or has held.
AddOperation_NoZeroCheck(table, h, operation, randRet, draw) ==
    IF randRet = 0
    THEN [table |-> table, heap |-> Delete(h, operation),
          error |-> KM_ERROR_UNKNOWN_ERROR, op_handle |-> draw]
    ELSE IF ~TableFull(table)
    THEN [table |-> [table EXCEPT ![FirstSlot(FreeSlots(table))] =
                        [handle |-> draw, operation |-> operation]],
          heap |-> h, error |-> KM_ERROR_OK, op_handle |-> draw]
    ELSE [table |-> table, heap |-> Delete(h, operation),
          error |-> KM_ERROR_TOO_MANY_OPERATIONS, op_handle |-> draw]

AddOperation_ZeroRetry(table, h, operation, randRet, draw) ==
    LET d == IF draw = 0 THEN 1 ELSE draw
    IN  IF randRet = 0
        THEN [table |-> table, heap |-> Delete(h, operation),
              error |-> KM_ERROR_UNKNOWN_ERROR, op_handle |-> draw]
        ELSE IF ~TableFull(table)
        THEN [table |-> [table EXCEPT ![FirstSlot(FreeSlots(table))] =
                            [handle |-> d, operation |-> operation]],
              heap |-> h, error |-> KM_ERROR_OK, op_handle |-> d]
        ELSE [table |-> table, heap |-> Delete(h, operation),
              error |-> KM_ERROR_TOO_MANY_OPERATIONS, op_handle |-> d]

AddOperation_SlotFirst(table, h, operation, randRet, draw) ==
    IF TableFull(table)
    THEN [table |-> table, heap |-> Delete(h, operation),
          error |-> KM_ERROR_TOO_MANY_OPERATIONS, op_handle |-> 0]
    ELSE IF randRet = 0 \/ draw = 0
    THEN [table |-> table, heap |-> Delete(h, operation),
          error |-> KM_ERROR_UNKNOWN_ERROR, op_handle |-> draw]
    ELSE [table |-> [table EXCEPT ![FirstSlot(FreeSlots(table))] =
                        [handle |-> draw, operation |-> operation]],
          heap |-> h, error |-> KM_ERROR_OK, op_handle |-> draw]

AddOperation_RawPointer(table, h, operation, randRet, draw) ==
    IF randRet = 0
    THEN [table |-> table, heap |-> Delete(h, operation),
          error |-> KM_ERROR_UNKNOWN_ERROR, op_handle |-> draw]
    ELSE IF draw = 0
    THEN [table |-> table, heap |-> Delete(h, operation),
          error |-> KM_ERROR_UNKNOWN_ERROR, op_handle |-> draw]
    ELSE IF ~TableFull(table)
    THEN [table |-> [table EXCEPT ![FirstSlot(FreeSlots(table))] =
                        [handle |-> draw, operation |-> operation]],
          heap |-> h, error |-> KM_ERROR_OK, op_handle |-> draw]
    ELSE [table |-> table, heap |-> h,
          error |-> KM_ERROR_TOO_MANY_OPERATIONS, op_handle |-> draw]

AddOperation(table, h, operation, randRet, draw) ==
    IF randRet = 0
    THEN [table |-> table, heap |-> Delete(h, operation),
          error |-> KM_ERROR_UNKNOWN_ERROR, op_handle |-> draw]
    ELSE IF draw = 0
    THEN [table |-> table, heap |-> Delete(h, operation),
          error |-> KM_ERROR_UNKNOWN_ERROR, op_handle |-> draw]
    ELSE IF ~TableFull(table)
    THEN [table |-> [table EXCEPT ![FirstSlot(FreeSlots(table))] =
                        [handle |-> draw, operation |-> operation]],
          heap |-> h, error |-> KM_ERROR_OK, op_handle |-> draw]
    ELSE [table |-> table, heap |-> Delete(h, operation),
          error |-> KM_ERROR_TOO_MANY_OPERATIONS, op_handle |-> draw]

\* ------------------------------------------------------------ the API
\* The record of a call.  stage: how far BeginOperation got ("load", "factory",
\* "create", "begin", "add"); randRet and draw: what RAND_bytes gave AddOperation.
Call(call, handle, error, op_handle, stage, randRet, draw) ==
    [call |-> call, handle |-> handle, error |-> error, op_handle |-> op_handle,
     stage |-> stage, randRet |-> randRet, draw |-> draw]

Init ==
    /\ operation_table = [i \in Slots |-> EmptyEntry]
    /\ heap = [p \in OpIds |-> 0]
    /\ nextOp = 1
    /\ issued = {}
    /\ released = {}
    /\ last = Call("none", 0, KM_ERROR_OK, 0, "none", 0, 0)
    /\ request = NoRequest
    /\ key_blob = NoBlob
    /\ created = NoSets
    /\ response = NoResponse
    /\ wire = NoWire
    /\ state = Untracked
    /\ buffer = NoBuffer
    /\ threads = NoThreads

\* BeginOperation when no Operation object comes to exist: LoadKey gives no
\* key, no factory is registered for (algorithm, purpose), or CreateOperation
\* returns NULL.  response->op_handle stays 0.
BeginOperationNoObject ==
    \E loadErr \in LoadKeyResults, factory \in BOOLEAN, createErr \in CreateResults :
        /\ loadErr # KM_ERROR_OK \/ ~factory \/ createErr # KM_ERROR_OK
        /\ last' = IF loadErr # KM_ERROR_OK
                   THEN Call("Begin", 0, loadErr, 0, "load", 0, 0)
                   ELSE IF ~factory
                   THEN Call("Begin", 0, KM_ERROR_UNSUPPORTED_PURPOSE, 0, "factory", 0, 0)
                   ELSE Call("Begin", 0, createErr, 0, "create", 0, 0)
        /\ UNCHANGED <<operation_table, heap, nextOp, issued, released, state, keyvars>>

\* BeginOperation when CreateOperation returned an object but operation->Begin
\* fails: the UniquePtr `operation` deletes it on return.
BeginOperationBeginFails ==
    \E beginErr \in BeginResults \ {KM_ERROR_OK} :
        /\ nextOp <= MaxOps
        /\ nextOp' = nextOp + 1
        /\ heap' = Delete(heap, nextOp)
        /\ state' = Becomes(nextOp, "created")
        /\ last' = Call("Begin", 0, beginErr, 0, "begin", 0, 0)
        /\ UNCHANGED <<operation_table, issued, released, keyvars>>

\* BeginOperation when operation->Begin returned OK: the object is released to
\* AddOperation, whose result is the response's error and op_handle.
BeginOperationAdd ==
    \E randRet \in 0..1, draw \in Handles :
        LET r == AddOperation(operation_table, heap, nextOp, randRet, draw)
        IN  /\ nextOp <= MaxOps
            /\ nextOp' = nextOp + 1
            /\ operation_table' = r.table
            /\ heap' = r.heap
            /\ issued' = IF r.error = KM_ERROR_OK THEN issued \cup {r.op_handle} ELSE issued
            /\ state' = Becomes(nextOp, "begun")
            /\ last' = Call("Begin", 0, r.error, r.op_handle, "add", randRet, draw)
            /\ UNCHANGED <<released, keyvars>>

BeginOperation ==
    \/ BeginOperationNoObject
    \/ BeginOperationBeginFails
    \/ BeginOperationAdd

Invalidates_Always(error) == TRUE

\* UpdateOperation: any error of the operation's Update invalidates the operation.
Invalidates(error) == error # KM_ERROR_OK

UpdateOperation ==
    \E op_handle \in Handles, opErr \in UpdateResults :
        LET entry == FindOperation(operation_table, op_handle)
            d == DeleteOperation(operation_table, heap, entry)
        IN  IF entry = NULL
            THEN /\ last' = Call("Update", op_handle, KM_ERROR_INVALID_OPERATION_HANDLE,
                                 0, "none", 0, 0)
                 /\ UNCHANGED <<operation_table, heap, nextOp, issued, released, state, keyvars>>
            ELSE /\ last' = Call("Update", op_handle, opErr, 0, "none", 0, 0)
                 /\ IF Invalidates(opErr)
                    THEN operation_table' = d.table /\ heap' = d.heap /\ state' = state
                    ELSE /\ UNCHANGED <<operation_table, heap>>
                         /\ state' = Becomes(operation_table[entry].operation, "updating")
                 /\ UNCHANGED <<nextOp, issued, released, keyvars>>

FinishOperation ==
    \E op_handle \in Handles, opErr \in FinishResults :
        LET entry == FindOperation(operation_table, op_handle)
            d == DeleteOperation(operation_table, heap, entry)
        IN  /\ released' = IF op_handle \in issued THEN released \cup {op_handle}
                           ELSE released
            /\ IF entry = NULL
               THEN /\ last' = Call("Finish", op_handle, KM_ERROR_INVALID_OPERATION_HANDLE,
                                    0, "none", 0, 0)
                    /\ UNCHANGED <<operation_table, heap, nextOp, issued, state, keyvars>>
               ELSE /\ last' = Call("Finish", op_handle, opErr, 0, "none", 0, 0)
                    /\ state' = Becomes(operation_table[entry].operation, "finished")
                    /\ operation_table' = d.table
                    /\ heap' = d.heap
                    /\ UNCHANGED <<nextOp, issued, keyvars>>

AbortOperation ==
    \E op_handle \in Handles, opErr \in AbortResults :
        LET entry == FindOperation(operation_table, op_handle)
            d == DeleteOperation(operation_table, heap, entry)
        IN  /\ released' = IF op_handle \in issued THEN released \cup {op_handle}
                           ELSE released
            /\ IF entry = NULL
               THEN /\ last' = Call("Abort", op_handle, KM_ERROR_INVALID_OPERATION_HANDLE,
                                    0, "none", 0, 0)
                    /\ UNCHANGED <<operation_table, heap, nextOp, issued, state, keyvars>>
               ELSE /\ last' = Call("Abort", op_handle, opErr, 0, "none", 0, 0)
                    /\ state' = Becomes(operation_table[entry].operation, "aborted")
                    /\ operation_table' = d.table
                    /\ heap' = d.heap
                    /\ UNCHANGED <<nextOp, issued, keyvars>>

Next ==
    \/ BeginOperation
    \/ UpdateOperation
    \/ FinishOperation
    \/ AbortOperation

Spec == Init /\ [][Next]_vars

\* The same service with the life of every Operation object recorded.
LifeInit ==
    /\ operation_table = [i \in Slots |-> EmptyEntry]
    /\ heap = [p \in OpIds |-> 0]
    /\ nextOp = 1
    /\ issued = {}
    /\ released = {}
    /\ last = Call("none", 0, KM_ERROR_OK, 0, "none", 0, 0)
    /\ state = NoStates
    /\ request = NoRequest
    /\ key_blob = NoBlob
    /\ created = NoSets
    /\ response = NoResponse
    /\ wire = NoWire
    /\ buffer = NoBuffer
    /\ threads = NoThreads

LifeSpec == LifeInit /\ [][Next]_vars

TypeOK ==
    /\ operation_table \in [Slots -> [handle : Handles, operation : OpIds \cup {NULL}]]
    /\ heap \in [OpIds -> 0..2]
    /\ nextOp \in 1..(MaxOps + 1)
    /\ issued \subseteq Handles
    /\ released \subseteq issued
    /\ last.error \in Errors

\* --------------------------------------------------- authorization sets
\* An AuthorizationSet is a sequence of entries [tag, value], in push order.
TAG_ALGORITHM == "ALGORITHM"
TAG_PURPOSE == "PURPOSE"
TAG_KEY_SIZE == "KEY_SIZE"
TAG_RSA_PUBLIC_EXPONENT == "RSA_PUBLIC_EXPONENT"
TAG_DIGEST == "DIGEST"
TAG_MAC_LENGTH == "MAC_LENGTH"
TAG_APPLICATION_ID == "APPLICATION_ID"
TAG_APPLICATION_DATA == "APPLICATION_DATA"
TAG_ROOT_OF_TRUST == "ROOT_OF_TRUST"
TAG_ORIGIN == "ORIGIN"
TAG_ROLLBACK_RESISTANT == "ROLLBACK_RESISTANT"
TAG_CREATION_DATETIME == "CREATION_DATETIME"

KM_ALGORITHM_RSA == "RSA"
KM_ALGORITHM_ECDSA == "ECDSA"
KM_ALGORITHM_HMAC == "HMAC"
KM_PURPOSE_ENCRYPT == "ENCRYPT"
KM_PURPOSE_SIGN == "SIGN"
KM_PURPOSE_VERIFY == "VERIFY"
KM_DIGEST_NONE == "NONE"
KM_DIGEST_SHA_2_224 == "SHA_2_224"
KM_DIGEST_SHA_2_256 == "SHA_2_256"
KM_ORIGIN_SOFTWARE == "SOFTWARE"
KM_ORIGIN_IMPORTED == "IMPORTED"

KM_ERROR_UNSUPPORTED_ALGORITHM == "UNSUPPORTED_ALGORITHM"
KM_ERROR_UNSUPPORTED_KEY_SIZE == "UNSUPPORTED_KEY_SIZE"
KM_ERROR_IMPORT_PARAMETER_MISMATCH == "IMPORT_PARAMETER_MISMATCH"
KM_ERROR_INVALID_TAG == "INVALID_TAG"
KM_ERROR_UNSUPPORTED_TAG == "UNSUPPORTED_TAG"
KM_ERROR_UNSUPPORTED_MAC_LENGTH == "UNSUPPORTED_MAC_LENGTH"
KM_ERROR_UNSUPPORTED_KEY_FORMAT == "UNSUPPORTED_KEY_FORMAT"
KM_ERROR_UNSUPPORTED_EC_FIELD == "UNSUPPORTED_EC_FIELD"

Authorization(tag, value) == [tag |-> tag, value |-> value]

\* AuthorizationSet::find: the index of the first entry with the tag, 0 if none.
find(set, tag) ==
    IF \E i \in 1..Len(set) : set[i].tag = tag
    THEN CHOOSE i \in 1..Len(set) :
             /\ set[i].tag = tag
             /\ \A j \in 1..(i - 1) : set[j].tag # tag
    ELSE 0

Contains(set, tag) == find(set, tag) # 0

\* AuthorizationSet::GetTagValue: the first entry's value; the caller's variable
\* keeps the value it had (default) when the tag is absent.
GetTagValue(set, tag, default) ==
    IF Contains(set, tag) THEN set[find(set, tag)].value ELSE default

\* The entries of the set whose tag is in tags, in order.
Entries(set, tags) == SelectSeq(set, LAMBDA e : e.tag \in tags)

\* How many entries of the set equal e.
Count(set, e) ==
    Cardinality({i \in 1..Len(set) : set[i].tag = e.tag /\ set[i].value = e.value})

\* ---------------------------------------------------------- key factories
RSA_DEFAULT_KEY_SIZE == 2048
RSA_DEFAULT_EXPONENT == 65537
ECDSA_DEFAULT_KEY_SIZE == 224

\* What a key factory returns: the error, and for OK the Key's authorizations
\* and its key material [algorithm, key_size in bits, public_exponent].
NoKey(error) == [error |-> error, authorizations |-> <<>>, key_material |-> NULL]

\* `if (!GetTagValue(tag, &v)) push_back(Authorization(tag, v))`.
PushDefault(authorizations, tag, value) ==
    IF Contains(authorizations, tag) THEN authorizations
    ELSE Append(authorizations, Authorization(tag, value))

\* RsaKey::GenerateKey.  RSA_generate_key_ex is taken to succeed.
RsaKey_GenerateKey(key_description) ==
    LET a1 == PushDefault(key_description, TAG_RSA_PUBLIC_EXPONENT, RSA_DEFAULT_EXPONENT)
        a2 == PushDefault(a1, TAG_KEY_SIZE, RSA_DEFAULT_KEY_SIZE)
    IN  [error |-> KM_ERROR_OK, authorizations |-> a2,
         key_material |->
             [algorithm |-> KM_ALGORITHM_RSA,
              key_size |-> GetTagValue(a2, TAG_KEY_SIZE, RSA_DEFAULT_KEY_SIZE),
              public_exponent |->
                  GetTagValue(a2, TAG_RSA_PUBLIC_EXPONENT, RSA_DEFAULT_EXPONENT)]]

\* RSA_size: the modulus size in bytes.
RSA_size(pkey) == (pkey.key_size + 7) \div 8

\* The KEY_SIZE comparison of RsaKey::ImportKey: `RSA_size(rsa_key.get()) !=
\* (int)key_size` is a mismatch, and RSA_size counts bytes.
KeySizeMatches(pkey, key_size) == RSA_size(pkey) = key_size

\* RsaKey::ImportKey.
RsaKey_ImportKey(key_description, pkey) ==
    IF pkey.algorithm # KM_ALGORITHM_RSA THEN NoKey(KM_ERROR_UNKNOWN_ERROR)
    ELSE IF /\ Contains(key_description, TAG_RSA_PUBLIC_EXPONENT)
            /\ GetTagValue(key_description, TAG_RSA_PUBLIC_EXPONENT, 0) # pkey.public_exponent
    THEN NoKey(KM_ERROR_IMPORT_PARAMETER_MISMATCH)
    ELSE IF /\ Contains(key_description, TAG_KEY_SIZE)
            /\ ~KeySizeMatches(pkey, GetTagValue(key_description, TAG_KEY_SIZE, 0))
    THEN NoKey(KM_ERROR_IMPORT_PARAMETER_MISMATCH)
    ELSE IF GetTagValue(key_description, TAG_ALGORITHM, KM_ALGORITHM_RSA) # KM_ALGORITHM_RSA
    THEN NoKey(KM_ERROR_IMPORT_PARAMETER_MISMATCH)
    ELSE LET a1 == PushDefault(key_description, TAG_RSA_PUBLIC_EXPONENT,
                               pkey.public_exponent)
             a2 == PushDefault(a1, TAG_KEY_SIZE, RSA_size(pkey) * 8)
             a3 == PushDefault(a2, TAG_ALGORITHM, KM_ALGORITHM_RSA)
         IN  [error |-> KM_ERROR_OK, authorizations |-> a3, key_material |-> pkey]

\* EcdsaKey::choose_group of the older asymmetric_key.cpp, which knows
\* prime192v1 as well.
choose_group_192(key_size_bits) == key_size_bits \in {192, 224, 256, 384, 521}

\* EcdsaKeyFactory::choose_group: TRUE when it returns a group, FALSE for NULL.
choose_group(key_size_bits) == key_size_bits \in {224, 256, 384, 521}

\* EcdsaKeyFactory::GenerateKey.
EcdsaKeyFactory_GenerateKey(key_description) ==
    LET authorizations == PushDefault(key_description, TAG_KEY_SIZE, ECDSA_DEFAULT_KEY_SIZE)
        key_size == GetTagValue(authorizations, TAG_KEY_SIZE, ECDSA_DEFAULT_KEY_SIZE)
    IN  IF ~choose_group(key_size) THEN NoKey(KM_ERROR_UNSUPPORTED_KEY_SIZE)
        ELSE [error |-> KM_ERROR_OK, authorizations |-> authorizations,
              key_material |-> [algorithm |-> KM_ALGORITHM_ECDSA, key_size |-> key_size,
                                public_exponent |-> 0]]

\* EcdsaKeyFactory::get_group_size: TRUE when the key's curve is one it knows;
\* the size it then returns is the curve's size.
get_group_size(curve_bits) == curve_bits \in {224, 256, 384, 521}

\* EcdsaKeyFactory::ImportKey.
EcdsaKeyFactory_ImportKey(key_description, pkey) ==
    IF pkey.algorithm # KM_ALGORITHM_ECDSA THEN NoKey(KM_ERROR_UNKNOWN_ERROR)
    ELSE IF ~get_group_size(pkey.key_size) THEN NoKey(KM_ERROR_UNSUPPORTED_EC_FIELD)
    ELSE IF GetTagValue(key_description, TAG_KEY_SIZE, pkey.key_size) # pkey.key_size
    THEN NoKey(KM_ERROR_IMPORT_PARAMETER_MISMATCH)
    ELSE IF GetTagValue(key_description, TAG_ALGORITHM, KM_ALGORITHM_ECDSA)
                # KM_ALGORITHM_ECDSA
    THEN NoKey(KM_ERROR_IMPORT_PARAMETER_MISMATCH)
    ELSE [error |-> KM_ERROR_OK,
          authorizations |->
              PushDefault(PushDefault(key_description, TAG_KEY_SIZE, pkey.key_size),
                          TAG_ALGORITHM, KM_ALGORITHM_ECDSA),
          key_material |-> pkey]

\* The HMAC key factory: the description becomes the key's authorizations; a
\* key needs a KEY_SIZE.
HmacKeyFactory_GenerateKey(key_description) ==
    IF ~Contains(key_description, TAG_KEY_SIZE) THEN NoKey(KM_ERROR_UNSUPPORTED_KEY_SIZE)
    ELSE [error |-> KM_ERROR_OK, authorizations |-> key_description,
          key_material |-> [algorithm |-> KM_ALGORITHM_HMAC,
                            key_size |-> GetTagValue(key_description, TAG_KEY_SIZE, 0),
                            public_exponent |-> 0]]

\* KeyFactoryRegistry: the algorithms a factory is registered for.
KeyFactoryRegistry == {KM_ALGORITHM_RSA, KM_ALGORITHM_ECDSA, KM_ALGORITHM_HMAC}

\* factory->GenerateKey and factory->ImportKey of the registered factory.
FactoryGenerateKey(algorithm, key_description) ==
    IF algorithm = KM_ALGORITHM_RSA THEN RsaKey_GenerateKey(key_description)
    ELSE IF algorithm = KM_ALGORITHM_ECDSA THEN EcdsaKeyFactory_GenerateKey(key_description)
    ELSE HmacKeyFactory_GenerateKey(key_description)

FactoryImportKey(algorithm, key_description, pkey) ==
    IF algorithm = KM_ALGORITHM_RSA THEN RsaKey_ImportKey(key_description, pkey)
    ELSE IF algorithm = KM_ALGORITHM_ECDSA THEN EcdsaKeyFactory_ImportKey(key_description, pkey)
    ELSE NoKey(KM_ERROR_UNSUPPORTED_KEY_FORMAT)

\* ------------------------------------------------------- characteristics
\* AndroidSoftKeymaster::is_enforced: nothing is enforced by hardware.
is_enforced(tag) == FALSE

AddAuthorization(auth, sets) ==
    IF is_enforced(auth.tag)
    THEN [sets EXCEPT !.enforced = Append(@, auth)]
    ELSE [sets EXCEPT !.unenforced = Append(@, auth)]

\* The loop of SetAuthorizations from entry i on: [error, enforced, unenforced],
\* the sets being what the loop had filled when it returned.
RECURSIVE CopyAuthorizations(_, _, _)
CopyAuthorizations(key_description, i, sets) ==
    IF i > Len(key_description)
    THEN [error |-> KM_ERROR_OK, enforced |-> sets.enforced, unenforced |-> sets.unenforced]
    ELSE IF key_description[i].tag \in {TAG_ROOT_OF_TRUST, TAG_ORIGIN}
    THEN [error |-> KM_ERROR_INVALID_TAG, enforced |-> sets.enforced,
          unenforced |-> sets.unenforced]
    ELSE IF key_description[i].tag = TAG_ROLLBACK_RESISTANT
    THEN [error |-> KM_ERROR_UNSUPPORTED_TAG, enforced |-> sets.enforced,
          unenforced |-> sets.unenforced]
    ELSE IF key_description[i].tag \in {TAG_APPLICATION_ID, TAG_APPLICATION_DATA}
    THEN CopyAuthorizations(key_description, i + 1, sets)
    ELSE CopyAuthorizations(key_description, i + 1,
                            AddAuthorization(key_description[i], sets))

\* A SetAuthorizations that copies the hidden tags too.
SetAuthorizations_KeepsHidden(key_description, origin, now) ==
    [error |-> KM_ERROR_OK, enforced |-> <<>>,
     unenforced |-> key_description \o <<Authorization(TAG_CREATION_DATETIME, now),
                                         Authorization(TAG_ORIGIN, origin)>>]

\* A SetAuthorizations that drops the tags a client may not supply instead of
\* refusing them.
SetAuthorizations_DropsInvalid(key_description, origin, now) ==
    LET kept == SelectSeq(key_description,
                          LAMBDA e : e.tag \notin {TAG_ROOT_OF_TRUST, TAG_ORIGIN,
                                                   TAG_ROLLBACK_RESISTANT,
                                                   TAG_APPLICATION_ID,
                                                   TAG_APPLICATION_DATA})
    IN  [error |-> KM_ERROR_OK, enforced |-> <<>>,
         unenforced |-> kept \o <<Authorization(TAG_CREATION_DATETIME, now),
                                  Authorization(TAG_ORIGIN, origin)>>]

\* GoogleKeymaster::SetAuthorizations; now is java_time(time(NULL)).
SetAuthorizations(key_description, origin, now) ==
    LET copied == CopyAuthorizations(key_description, 1, NoSets)
        stamped == AddAuthorization(Authorization(TAG_ORIGIN, origin),
                       AddAuthorization(Authorization(TAG_CREATION_DATETIME, now),
                                        [enforced |-> copied.enforced,
                                         unenforced |-> copied.unenforced]))
    IN  IF copied.error # KM_ERROR_OK THEN copied
        ELSE [error |-> KM_ERROR_OK, enforced |-> stamped.enforced,
              unenforced |-> stamped.unenforced]

\* AndroidSoftKeymaster::RootOfTrustTag.
RootOfTrustTag == Authorization(TAG_ROOT_OF_TRUST, "SW")

\* A BuildHiddenAuthorizations that forgets APPLICATION_DATA.
BuildHiddenAuthorizations_IdOnly(input_set) ==
    (IF Contains(input_set, TAG_APPLICATION_ID)
     THEN <<Authorization(TAG_APPLICATION_ID,
                          GetTagValue(input_set, TAG_APPLICATION_ID, ""))>>
     ELSE <<>>)
    \o <<RootOfTrustTag>>

\* GoogleKeymaster::BuildHiddenAuthorizations: the first APPLICATION_ID, the
\* first APPLICATION_DATA, the root of trust.
BuildHiddenAuthorizations(input_set) ==
    (IF Contains(input_set, TAG_APPLICATION_ID)
     THEN <<Authorization(TAG_APPLICATION_ID,
                          GetTagValue(input_set, TAG_APPLICATION_ID, ""))>>
     ELSE <<>>)
    \o (IF Contains(input_set, TAG_APPLICATION_DATA)
        THEN <<Authorization(TAG_APPLICATION_DATA,
                             GetTagValue(input_set, TAG_APPLICATION_DATA, ""))>>
        ELSE <<>>)
    \o <<RootOfTrustTag>>

\* ------------------------------------------------------------- key blobs
\* The sealed blob: enforced and unenforced in the clear, the key material
\* encrypted, and an authentication tag over the three sets and the material.
\* The tag is modelled by its preimage: the blob remembers the hidden set it
\* was sealed with, and unsealing succeeds only with that same hidden set.
UnencryptedKeyBlob(enforced, unenforced, hidden, key_material) ==
    [sealed |-> TRUE, enforced |-> enforced, unenforced |-> unenforced,
     hidden |-> hidden, key_material |-> key_material]

\* What a creating call answers: [error, key_blob, enforced, unenforced].
\* GoogleKeymaster::SerializeKey for the Key a factory returned.
SerializeKey(key, origin, now) ==
    LET auths == SetAuthorizations(key.authorizations, origin, now)
    IN  IF auths.error # KM_ERROR_OK
        THEN [error |-> auths.error, key_blob |-> NoBlob,
              enforced |-> auths.enforced, unenforced |-> auths.unenforced]
        ELSE [error |-> KM_ERROR_OK,
              key_blob |-> UnencryptedKeyBlob(auths.enforced, auths.unenforced,
                               BuildHiddenAuthorizations(key.authorizations),
                               key.key_material),
              enforced |-> auths.enforced, unenforced |-> auths.unenforced]

\* GoogleKeymaster::LoadKeyBlob: [error, blob]; unsealing a blob with the
\* hidden set built from the client's parameters.
LoadKeyBlob(key, client_params) ==
    IF key.sealed /\ key.hidden = BuildHiddenAuthorizations(client_params)
    THEN [error |-> KM_ERROR_OK, blob |-> key]
    ELSE [error |-> KM_ERROR_INVALID_KEY_BLOB, blob |-> NoBlob]

\* UnencryptedKeyBlob::algorithm: the ALGORITHM of the blob's sets.
BlobAlgorithm(blob) ==
    GetTagValue(blob.enforced \o blob.unenforced, TAG_ALGORITHM, "")

\* Key::Key(blob): the loaded key's authorizations, unenforced then enforced.
KeyAuthorizations(blob) == blob.unenforced \o blob.enforced

\* GoogleKeymaster::LoadKey: [error, blob], the blob standing for the Key.
LoadKey(key, client_params) ==
    LET loaded == LoadKeyBlob(key, client_params)
    IN  IF loaded.error # KM_ERROR_OK THEN loaded
        ELSE IF BlobAlgorithm(loaded.blob) \notin KeyFactoryRegistry
        THEN [error |-> KM_ERROR_UNSUPPORTED_ALGORITHM, blob |-> NoBlob]
        ELSE loaded

\* ------------------------------------------------------------ key calls
\* The response of a key call.
KeyResponse(call, error, blob, enforced, unenforced, key_data) ==
    [call |-> call, error |-> error, key_blob |-> blob, enforced |-> enforced,
     unenforced |-> unenforced, key_data |-> key_data]

\* AndroidSoftKeymaster::origin.
origin == KM_ORIGIN_SOFTWARE

\* GoogleKeymaster::GenerateKey: [error, key_blob, enforced, unenforced].
GenerateKeyResponse(key_description, now) ==
    LET algorithm == GetTagValue(key_description, TAG_ALGORITHM, "")
        key == FactoryGenerateKey(algorithm, key_description)
    IN  IF ~Contains(key_description, TAG_ALGORITHM) \/ algorithm \notin KeyFactoryRegistry
        THEN [error |-> KM_ERROR_UNSUPPORTED_ALGORITHM, key_blob |-> NoBlob,
              enforced |-> <<>>, unenforced |-> <<>>]
        ELSE IF key.error # KM_ERROR_OK
        THEN [error |-> key.error, key_blob |-> NoBlob, enforced |-> <<>>,
              unenforced |-> <<>>]
        ELSE SerializeKey(key, origin, now)

\* GoogleKeymaster::ImportKey: [error, key_blob, enforced, unenforced].
ImportKeyResponse(key_description, pkey, now) ==
    LET algorithm == GetTagValue(key_description, TAG_ALGORITHM, "")
        key == FactoryImportKey(algorithm, key_description, pkey)
    IN  IF ~Contains(key_description, TAG_ALGORITHM) \/ algorithm \notin KeyFactoryRegistry
        THEN [error |-> KM_ERROR_UNSUPPORTED_ALGORITHM, key_blob |-> NoBlob,
              enforced |-> <<>>, unenforced |-> <<>>]
        ELSE IF key.error # KM_ERROR_OK
        THEN [error |-> key.error, key_blob |-> NoBlob, enforced |-> <<>>,
              unenforced |-> <<>>]
        ELSE SerializeKey(key, KM_ORIGIN_IMPORTED, now)

\* A GetKeyCharacteristics that answers from a freshly built set instead of
\* the blob's.
GetKeyCharacteristicsResponse_Restamps(key, additional_params) ==
    LET loaded == LoadKeyBlob(key, additional_params)
    IN  IF loaded.error # KM_ERROR_OK
        THEN [error |-> loaded.error, enforced |-> <<>>, unenforced |-> <<>>]
        ELSE [error |-> KM_ERROR_OK, enforced |-> loaded.blob.enforced,
              unenforced |-> Entries(loaded.blob.unenforced,
                                     {TAG_ALGORITHM, TAG_PURPOSE, TAG_KEY_SIZE})]

\* GoogleKeymaster::GetKeyCharacteristics: [error, enforced, unenforced].
GetKeyCharacteristicsResponse(key, additional_params) ==
    LET loaded == LoadKeyBlob(key, additional_params)
    IN  IF loaded.error # KM_ERROR_OK
        THEN [error |-> loaded.error, enforced |-> <<>>, unenforced |-> <<>>]
        ELSE [error |-> KM_ERROR_OK, enforced |-> loaded.blob.enforced,
              unenforced |-> loaded.blob.unenforced]

\* Key::formatted_key_material: asymmetric keys export their public part,
\* symmetric keys export nothing.
formatted_key_material(blob) ==
    IF BlobAlgorithm(blob) = KM_ALGORITHM_HMAC
    THEN [error |-> KM_ERROR_UNSUPPORTED_KEY_FORMAT, key_data |-> NULL]
    ELSE [error |-> KM_ERROR_OK,
          key_data |-> [algorithm |-> blob.key_material.algorithm,
                        key_size |-> blob.key_material.key_size]]

\* GoogleKeymaster::ExportKey: [error, key_data].
ExportKeyResponse(key, additional_params) ==
    LET loaded == LoadKey(key, additional_params)
    IN  IF loaded.error # KM_ERROR_OK
        THEN [error |-> loaded.error, key_data |-> NULL]
        ELSE formatted_key_material(loaded.blob)

GenerateKey ==
    \E now \in 1..MaxTime :
        LET r == GenerateKeyResponse(request.key_description, now)
        IN  /\ response' = KeyResponse("GenerateKey", r.error, r.key_blob, r.enforced,
                                       r.unenforced, NULL)
            /\ IF r.error = KM_ERROR_OK
               THEN /\ key_blob' = r.key_blob
                    /\ created' = [enforced |-> r.enforced, unenforced |-> r.unenforced]
               ELSE UNCHANGED <<key_blob, created>>
            /\ UNCHANGED <<sessionvars, request, wire, buffer, threads>>

ImportKey ==
    \E now \in 1..MaxTime :
        LET r == ImportKeyResponse(request.key_description, request.pkey, now)
        IN  /\ response' = KeyResponse("ImportKey", r.error, r.key_blob, r.enforced,
                                       r.unenforced, NULL)
            /\ IF r.error = KM_ERROR_OK
               THEN /\ key_blob' = r.key_blob
                    /\ created' = [enforced |-> r.enforced, unenforced |-> r.unenforced]
               ELSE UNCHANGED <<key_blob, created>>
            /\ UNCHANGED <<sessionvars, request, wire, buffer, threads>>

GetKeyCharacteristics ==
    LET r == GetKeyCharacteristicsResponse(key_blob, request.additional_params)
    IN  /\ response' = KeyResponse("GetKeyCharacteristics", r.error, NoBlob, r.enforced,
                                   r.unenforced, NULL)
        /\ UNCHANGED <<sessionvars, request, key_blob, created, wire, buffer, threads>>

ExportKey ==
    LET r == ExportKeyResponse(key_blob, request.additional_params)
    IN  /\ response' = KeyResponse("ExportKey", r.error, NoBlob, <<>>, <<>>, r.key_data)
        /\ UNCHANGED <<sessionvars, request, key_blob, created, wire, buffer, threads>>

\* ------------------------------------------------- the key specification
\* The sequences over S of length at most n.
SeqsUpTo(S, n) == UNION {[1..k -> S] : k \in 0..n}

\* The entries a client writes into a key description.
DescriptionEntries ==
    {Authorization(TAG_ALGORITHM, KM_ALGORITHM_RSA),
     Authorization(TAG_PURPOSE, KM_PURPOSE_SIGN),
     Authorization(TAG_APPLICATION_ID, "a"),
     Authorization(TAG_APPLICATION_DATA, "d"),
     Authorization(TAG_ROOT_OF_TRUST, "x"),
     Authorization(TAG_ORIGIN, KM_ORIGIN_IMPORTED),
     Authorization(TAG_ROLLBACK_RESISTANT, "true")}

\* Descriptions that name an algorithm and a key size, for every size.
SizedDescriptions ==
    {<<Authorization(TAG_ALGORITHM, a), Authorization(TAG_KEY_SIZE, n)>> :
         a \in {KM_ALGORITHM_RSA, KM_ALGORITHM_ECDSA}, n \in 0..MaxKeySize}

\* The parameters a client sends with a blob.
ClientParams ==
    {<<>>, <<Authorization(TAG_APPLICATION_ID, "a")>>,
     <<Authorization(TAG_APPLICATION_DATA, "d")>>,
     <<Authorization(TAG_APPLICATION_ID, "a"), Authorization(TAG_APPLICATION_DATA, "d")>>}

\* The private keys a client imports: a 1024-bit RSA key and a P-256 key.
ImportedKeys ==
    {[algorithm |-> KM_ALGORITHM_RSA, key_size |-> 1024, public_exponent |-> 65537],
     [algorithm |-> KM_ALGORITHM_ECDSA, key_size |-> 256, public_exponent |-> 0]}

Request(key_description, additional_params, pkey, purpose) ==
    [call |-> "request", key_description |-> key_description,
     additional_params |-> additional_params, pkey |-> pkey, purpose |-> purpose]

\* The keys a client imports under a description: a key of the algorithm the
\* description names.
MatchingKeys(key_description) ==
    {k \in ImportedKeys :
         GetTagValue(key_description, TAG_ALGORITHM, k.algorithm) = k.algorithm}

\* The requests of the key specification.
KeyRequests ==
    UNION {{Request(d, p, k, KM_PURPOSE_SIGN) : p \in ClientParams, k \in MatchingKeys(d)} :
               d \in SeqsUpTo(DescriptionEntries, MaxDescLen)}
    \cup UNION {{Request(d, <<>>, k, KM_PURPOSE_SIGN) : k \in MatchingKeys(d)} :
                    d \in SizedDescriptions}

KeyInit ==
    /\ operation_table = [i \in Slots |-> EmptyEntry]
    /\ heap = [p \in OpIds |-> 0]
    /\ nextOp = 1
    /\ issued = {}
    /\ released = {}
    /\ last = Call("none", 0, KM_ERROR_OK, 0, "none", 0, 0)
    /\ request \in KeyRequests
    /\ key_blob = NoBlob
    /\ created = NoSets
    /\ response = NoResponse
    /\ wire = NoWire
    /\ state = Untracked
    /\ buffer = NoBuffer
    /\ threads = NoThreads

KeyNext ==
    \/ GenerateKey
    \/ ImportKey
    \/ GetKeyCharacteristics
    \/ ExportKey

KeySpec == KeyInit /\ [][KeyNext]_vars

\* ------------------------------------------------- beginning with a key
TAG_PADDING == "PADDING"
KM_PAD_NONE == "PAD_NONE"
KM_ERROR_UNSUPPORTED_PADDING_MODE == "UNSUPPORTED_PADDING_MODE"
KM_ERROR_UNIMPLEMENTED == "UNIMPLEMENTED"

\* OperationFactoryRegistry: the (algorithm, purpose) pairs with a factory.
OperationFactoryRegistry ==
    {<<KM_ALGORITHM_HMAC, KM_PURPOSE_SIGN>>, <<KM_ALGORITHM_HMAC, KM_PURPOSE_VERIFY>>,
     <<KM_ALGORITHM_RSA, KM_PURPOSE_SIGN>>, <<KM_ALGORITHM_RSA, KM_PURPOSE_VERIFY>>}

\* What CreateOperation answers: its error, and whether it constructed an
\* Operation object (which it destroys itself when it answers an error).
Created(error, constructed) == [error |-> error, constructed |-> constructed]

\* The digests HmacOperation's constructor finds a message digest for.
HmacDigests == {KM_DIGEST_SHA_2_224, KM_DIGEST_SHA_2_256}

\* The output length, in bytes, of a digest HMAC_Final computes.
digest_len(digest) == IF digest = KM_DIGEST_SHA_2_224 THEN 28 ELSE 32

\* HmacOperationFactory::CreateOperation with HmacOperation's constructor.
HmacCreateOperation(authorizations, begin_params) ==
    LET tag_length == GetTagValue(begin_params, TAG_MAC_LENGTH, 0)
        digest == GetTagValue(authorizations, TAG_DIGEST, KM_DIGEST_NONE)
    IN  IF tag_length % 8 # 0 THEN Created(KM_ERROR_UNSUPPORTED_MAC_LENGTH, FALSE)
        ELSE IF digest \notin HmacDigests THEN Created(KM_ERROR_UNSUPPORTED_DIGEST, TRUE)
        ELSE Created(KM_ERROR_OK, TRUE)

\* AsymmetricKey::CreateOperation with RsaKey::CreateOperation.
RsaCreateOperation(authorizations, purpose) ==
    IF GetTagValue(authorizations, TAG_DIGEST, "") # KM_DIGEST_NONE
    THEN Created(KM_ERROR_UNSUPPORTED_DIGEST, FALSE)
    ELSE IF GetTagValue(authorizations, TAG_PADDING, "") # KM_PAD_NONE
    THEN Created(KM_ERROR_UNSUPPORTED_PADDING_MODE, FALSE)
    ELSE IF purpose \notin {KM_PURPOSE_SIGN, KM_PURPOSE_VERIFY}
    THEN Created(KM_ERROR_UNIMPLEMENTED, FALSE)
    ELSE Created(KM_ERROR_OK, TRUE)

\* factory->CreateOperation of the factory registered for (algorithm, purpose).
CreateOperation(algorithm, purpose, authorizations, begin_params) ==
    IF algorithm = KM_ALGORITHM_HMAC
    THEN HmacCreateOperation(authorizations, begin_params)
    ELSE RsaCreateOperation(authorizations, purpose)

\* GoogleKeymaster::BeginOperation for the blob and the request the client
\* holds.
BeginOperationKey ==
    \E randRet \in 0..1, draw \in Handles :
        LET key == LoadKey(key_blob, request.additional_params)
            algorithm == BlobAlgorithm(key.blob)
            op == CreateOperation(algorithm, request.purpose, KeyAuthorizations(key.blob),
                                  request.additional_params)
            r == AddOperation(operation_table, heap, nextOp, randRet, draw)
        IN  /\ nextOp <= MaxOps
            /\ IF key.error # KM_ERROR_OK
               THEN /\ last' = Call("Begin", 0, key.error, 0, "load", 0, 0)
                    /\ UNCHANGED <<operation_table, heap, nextOp, issued, state>>
               ELSE IF <<algorithm, request.purpose>> \notin OperationFactoryRegistry
               THEN /\ last' = Call("Begin", 0, KM_ERROR_UNSUPPORTED_PURPOSE, 0,
                                    "factory", 0, 0)
                    /\ UNCHANGED <<operation_table, heap, nextOp, issued, state>>
               ELSE IF op.error # KM_ERROR_OK
               THEN /\ last' = Call("Begin", 0, op.error, 0, "create", 0, 0)
                    /\ IF op.constructed
                       THEN /\ nextOp' = nextOp + 1
                            /\ heap' = Delete(heap, nextOp)
                            /\ state' = Becomes(nextOp, "created")
                       ELSE UNCHANGED <<nextOp, heap, state>>
                    /\ UNCHANGED <<operation_table, issued>>
               ELSE /\ nextOp' = nextOp + 1
                    /\ operation_table' = r.table
                    /\ heap' = r.heap
                    /\ issued' = IF r.error = KM_ERROR_OK THEN issued \cup {r.op_handle}
                                 ELSE issued
                    /\ state' = Becomes(nextOp, "begun")
                    /\ last' = Call("Begin", 0, r.error, r.op_handle, "add", randRet, draw)
            /\ UNCHANGED <<released, keyvars>>

\* The purposes a key description lists, the digest it names, and the client
\* id and data it or a request carries.
PurposeLists ==
    {<<>>, <<Authorization(TAG_PURPOSE, KM_PURPOSE_SIGN)>>,
     <<Authorization(TAG_PURPOSE, KM_PURPOSE_VERIFY)>>,
     <<Authorization(TAG_PURPOSE, KM_PURPOSE_SIGN),
       Authorization(TAG_PURPOSE, KM_PURPOSE_VERIFY)>>}

ApplicationLists ==
    {<<>>, <<Authorization(TAG_APPLICATION_ID, "a")>>,
     <<Authorization(TAG_APPLICATION_ID, "b")>>,
     <<Authorization(TAG_APPLICATION_DATA, "d")>>,
     <<Authorization(TAG_APPLICATION_ID, "a"), Authorization(TAG_APPLICATION_DATA, "d")>>}

\* An HMAC key and an RSA signing key, without purposes and client identity.
HmacKeyDescription(digest) ==
    <<Authorization(TAG_ALGORITHM, KM_ALGORITHM_HMAC), Authorization(TAG_KEY_SIZE, 128),
      Authorization(TAG_DIGEST, digest)>>

RsaKeyDescription ==
    <<Authorization(TAG_ALGORITHM, KM_ALGORITHM_RSA), Authorization(TAG_KEY_SIZE, 256),
      Authorization(TAG_DIGEST, KM_DIGEST_NONE), Authorization(TAG_PADDING, KM_PAD_NONE)>>

BothPurposes ==
    <<Authorization(TAG_PURPOSE, KM_PURPOSE_SIGN), Authorization(TAG_PURPOSE, KM_PURPOSE_VERIFY)>>

\* The MAC lengths, in bits, a client asks an HMAC operation for.
MacLengths == {8, 12, 224, 232, 264}

\* The requests of the use specification: keys with every list of purposes
\* used for every purpose; keys with every client identity used with every
\* client identity; HMAC keys used with every MAC length.
UseRequests ==
    {Request(HmacKeyDescription(KM_DIGEST_SHA_2_256) \o p, <<>>, NULL, u) :
         p \in PurposeLists, u \in {KM_PURPOSE_SIGN, KM_PURPOSE_VERIFY, KM_PURPOSE_ENCRYPT}}
    \cup {Request(RsaKeyDescription \o p, <<>>, NULL, u) :
              p \in PurposeLists, u \in {KM_PURPOSE_SIGN, KM_PURPOSE_VERIFY}}
    \cup {Request(HmacKeyDescription(KM_DIGEST_SHA_2_256) \o BothPurposes \o a, b, NULL,
                  KM_PURPOSE_SIGN) :
              a \in ApplicationLists, b \in ApplicationLists}
    \cup {Request(HmacKeyDescription(g) \o BothPurposes,
                  <<Authorization(TAG_MAC_LENGTH, m)>>, NULL, KM_PURPOSE_SIGN) :
              g \in HmacDigests, m \in MacLengths}
    \cup {Request(HmacKeyDescription(KM_DIGEST_NONE) \o BothPurposes, <<>>, NULL,
                  KM_PURPOSE_SIGN)}

UseInit ==
    /\ operation_table = [i \in Slots |-> EmptyEntry]
    /\ heap = [p \in OpIds |-> 0]
    /\ nextOp = 1
    /\ issued = {}
    /\ released = {}
    /\ last = Call("none", 0, KM_ERROR_OK, 0, "none", 0, 0)
    /\ request \in UseRequests
    /\ key_blob = NoBlob
    /\ created = NoSets
    /\ response = NoResponse
    /\ wire = NoWire
    /\ state = Untracked
    /\ buffer = NoBuffer
    /\ threads = NoThreads

UseNext ==
    \/ GenerateKey
    \/ GetKeyCharacteristics
    \/ ExportKey
    \/ BeginOperationKey

UseSpec == UseInit /\ [][UseNext]_vars

\* ------------------------------------------------------ the wire messages
\* append_uint32_to_buf and its kin: an integer in little-endian bytes.  A
\* negative value is written in two's complement.
RECURSIVE BigEndian(_, _)
BigEndian(value, width) ==
    IF width = 0 THEN <<>>
    ELSE BigEndian(value \div 256, width - 1) \o <<value % 256>>

RECURSIVE LittleEndian(_, _)
LittleEndian(value, width) ==
    IF width = 0 THEN <<>>
    ELSE <<value % 256>> \o LittleEndian(value \div 256, width - 1)

\* copy_uint32_from_buf and its kin: the unsigned integer of little-endian bytes.
RECURSIVE FromLittleEndian(_)
FromLittleEndian(bytes) ==
    IF bytes = <<>> THEN 0 ELSE Head(bytes) + 256 * FromLittleEndian(Tail(bytes))

\* The keymaster_error_t (a signed 32-bit integer) of four little-endian bytes.
ErrorFromLittleEndian(bytes) ==
    IF bytes[4] >= 128
    THEN -(1 + FromLittleEndian([i \in 1..4 |-> 255 - bytes[i]]))
    ELSE FromLittleEndian(bytes)

\* The numeric values of the errors a response carries.
ErrorValue(error) ==
    CASE error = KM_ERROR_OK -> 0
      [] error = KM_ERROR_UNSUPPORTED_ALGORITHM -> -4
      [] error = KM_ERROR_INVALID_OPERATION_HANDLE -> -28
      [] OTHER -> -1000

MessageErrors ==
    {KM_ERROR_OK, KM_ERROR_UNSUPPORTED_ALGORITHM, KM_ERROR_INVALID_OPERATION_HANDLE}

\* What a reader answers: whether it succeeded, the cursor after the bytes it
\* consumed (a count of bytes from the start of the buffer), and the value.
Parsed(ok, pos, value) == [ok |-> ok, pos |-> pos, value |-> value]

\* The unsigned integer of four little-endian bytes is larger than limit
\* (a limit below 2^31; the integer is not computed when its top bit is set).
Exceeds(bytes, limit) == bytes[4] >= 128 \/ FromLittleEndian(bytes) > limit

\* The unsigned integer of little-endian bytes as a member holds it: the
\* integer when it is below 2^31, the bytes themselves when it is not.
Unsigned(bytes) ==
    IF \A i \in 1..Len(bytes) : i >= 4 => (bytes[i] = 0 \/ (i = 4 /\ bytes[i] < 128))
    THEN FromLittleEndian(SubSeq(bytes, 1, IF Len(bytes) < 4 THEN Len(bytes) ELSE 4))
    ELSE bytes

\* A read of n bytes at the cursor that does not look at the end of the window.
copy_from_buf_Unbounded(buf, pos, n) ==
    Parsed(TRUE, pos + n, [i \in 1..n |-> IF pos + i <= Len(buf) THEN buf[pos + i] ELSE 0])

\* The bounded read of n bytes at the cursor.
copy_from_buf(buf, pos, n) ==
    IF pos + n <= Len(buf)
    THEN Parsed(TRUE, pos + n, SubSeq(buf, pos + 1, pos + n))
    ELSE Parsed(FALSE, pos, <<>>)

\* copy_size_and_data_from_buf: u32 length, bytes[length]; a length larger
\* than what is left of the window is rejected.
copy_size_and_data_from_buf(buf, pos) ==
    LET size == copy_from_buf(buf, pos, 4)
    IN  IF ~size.ok THEN size
        ELSE IF Exceeds(size.value, Len(buf) - size.pos) THEN Parsed(FALSE, pos, <<>>)
        ELSE copy_from_buf(buf, size.pos, FromLittleEndian(size.value))

\* A tag on the wire: its number in the low 28 bits, its type in the top 4
\* (1 enumeration, 3 unsigned 32-bit, 9 bytes).
tag_bytes(tag) ==
    CASE tag = TAG_ALGORITHM -> <<2, 0, 0, 16>>
      [] tag = TAG_KEY_SIZE -> <<3, 0, 0, 48>>
      [] tag = TAG_APPLICATION_ID -> <<89, 2, 0, 144>>

MessageTags == {TAG_ALGORITHM, TAG_KEY_SIZE, TAG_APPLICATION_ID}

\* keymaster_tag_get_type(tag) is KM_BYTES: the value lives in the indirect data.
is_blob_tag(bytes) == bytes[4] \div 16 = 9

\* AuthorizationSet::Serialize: [indirect-data length][indirect data]
\* [entry count][entries length][entries]; a bytes entry is its tag, its
\* length and its offset into the indirect data.
RECURSIVE SerializeEntries(_, _)
SerializeEntries(set, offset) ==
    IF set = <<>> THEN <<>>
    ELSE LET e == Head(set)
         IN  IF is_blob_tag(tag_bytes(e.tag))
             THEN tag_bytes(e.tag) \o LittleEndian(Len(e.value), 4)
                      \o LittleEndian(offset, 4)
                      \o SerializeEntries(Tail(set), offset + Len(e.value))
             ELSE tag_bytes(e.tag) \o LittleEndian(e.value, 4)
                      \o SerializeEntries(Tail(set), offset)

RECURSIVE IndirectData(_)
IndirectData(set) ==
    IF set = <<>> THEN <<>>
    ELSE (IF is_blob_tag(tag_bytes(Head(set).tag)) THEN Head(set).value ELSE <<>>)
             \o IndirectData(Tail(set))

AuthorizationSet_Serialize(set) ==
    LET indirect == IndirectData(set)
        elems == SerializeEntries(set, 0)
    IN  LittleEndian(Len(indirect), 4) \o indirect \o LittleEndian(Len(set), 4)
            \o LittleEndian(Len(elems), 4) \o elems

\* AuthorizationSet::SerializedSize.
RECURSIVE AuthorizationSet_SerializedSize(_)
AuthorizationSet_SerializedSize(set) ==
    IF set = <<>> THEN 12
    ELSE (IF is_blob_tag(tag_bytes(Head(set).tag)) THEN 12 + Len(Head(set).value) ELSE 8)
             + AuthorizationSet_SerializedSize(Tail(set))

\* The entries of a serialized set, read one by one; a bytes entry must lie
\* within the indirect data.
RECURSIVE DeserializeEntries(_, _, _, _)
DeserializeEntries(buf, pos, count, indirect) ==
    IF count = 0 THEN Parsed(TRUE, pos, <<>>)
    ELSE LET tag == copy_from_buf(buf, pos, 4)
             first == copy_from_buf(buf, tag.pos, 4)
             second == copy_from_buf(buf, first.pos, 4)
             blob == tag.ok /\ is_blob_tag(tag.value)
             length == FromLittleEndian(first.value)
             offset == FromLittleEndian(second.value)
         IN  IF ~tag.ok \/ ~first.ok \/ (blob /\ ~second.ok)
                 \/ \A t \in MessageTags : tag_bytes(t) # tag.value
             THEN Parsed(FALSE, pos, <<>>)
             ELSE IF blob /\ (Exceeds(first.value, Len(indirect))
                                 \/ Exceeds(second.value, Len(indirect))
                                 \/ offset + length > Len(indirect))
             THEN Parsed(FALSE, pos, <<>>)
             ELSE LET name == CHOOSE t \in MessageTags : tag_bytes(t) = tag.value
                      value == IF blob THEN SubSeq(indirect, offset + 1, offset + length)
                               ELSE Unsigned(first.value)
                      rest == DeserializeEntries(buf, IF blob THEN second.pos ELSE first.pos,
                                                 count - 1, indirect)
                  IN  Parsed(rest.ok, rest.pos, <<Authorization(name, value)>> \o rest.value)

\* AuthorizationSet::Deserialize.
AuthorizationSet_Deserialize(buf, pos) ==
    LET indirect == copy_size_and_data_from_buf(buf, pos)
        count == copy_from_buf(buf, indirect.pos, 4)
        size == copy_from_buf(buf, count.pos, 4)
        elems == DeserializeEntries(buf, size.pos, FromLittleEndian(count.value),
                                    indirect.value)
    IN  IF ~indirect.ok \/ ~count.ok \/ ~size.ok THEN Parsed(FALSE, pos, <<>>)
        ELSE IF Exceeds(size.value, Len(buf) - size.pos) \/ Exceeds(count.value, Len(buf))
        THEN Parsed(FALSE, pos, <<>>)
        ELSE IF ~elems.ok \/ elems.pos # size.pos + FromLittleEndian(size.value)
        THEN Parsed(FALSE, pos, <<>>)
        ELSE elems

MAX_MESSAGE_VERSION == 1

\* A member of a message: its name, how it is written, the first message
\* version that writes it, and whether the constructor initializes it.
Field(name, codec, since, init) ==
    [name |-> name, codec |-> codec, since |-> since, init |-> init]

\* The members of each message, in the order they are written.  The
\* additional_params of the Update and Finish requests and the output_params
\* of the Begin response are in no version's bytes.
Fields(type) ==
    CASE type = "SupportedResponse" -> <<Field("results", "array", 0, TRUE)>>
      [] type = "GenerateKeyRequest" -> <<Field("key_description", "set", 0, TRUE)>>
      [] type = "GenerateKeyResponse" ->
             <<Field("key_blob", "blob", 0, TRUE), Field("enforced", "set", 0, TRUE),
               Field("unenforced", "set", 0, TRUE)>>
      [] type = "GetKeyCharacteristicsRequest" ->
             <<Field("key_blob", "blob", 0, FALSE), Field("additional_params", "set", 0, TRUE)>>
      [] type = "GetKeyCharacteristicsResponse" ->
             <<Field("enforced", "set", 0, TRUE), Field("unenforced", "set", 0, TRUE)>>
      [] type = "BeginOperationRequest" ->
             <<Field("purpose", "u32", 0, FALSE), Field("key_blob", "blob", 0, FALSE),
               Field("additional_params", "set", 0, TRUE)>>
      [] type = "BeginOperationResponse" ->
             <<Field("op_handle", "u64", 0, FALSE),
               Field("output_params", "set", MAX_MESSAGE_VERSION + 1, TRUE)>>
      [] type = "UpdateOperationRequest" ->
             <<Field("op_handle", "u64", 0, FALSE), Field("input", "buffer", 0, TRUE),
               Field("additional_params", "set", MAX_MESSAGE_VERSION + 1, TRUE)>>
      [] type = "UpdateOperationResponse" ->
             <<Field("output", "buffer", 0, TRUE), Field("input_consumed", "u32", 1, TRUE)>>
      [] type = "FinishOperationRequest" ->
             <<Field("op_handle", "u64", 0, FALSE), Field("signature", "buffer", 0, TRUE),
               Field("additional_params", "set", MAX_MESSAGE_VERSION + 1, TRUE)>>
      [] type = "FinishOperationResponse" -> <<Field("output", "buffer", 0, TRUE)>>
      [] type = "AddEntropyRequest" -> <<Field("random_data", "buffer", 0, TRUE)>>
      [] type = "ImportKeyRequest" ->
             <<Field("key_description", "set", 0, TRUE), Field("key_format", "u32", 0, FALSE),
               Field("key_data", "blob", 0, FALSE)>>
      [] type = "ImportKeyResponse" ->
             <<Field("key_blob", "blob", 0, FALSE), Field("enforced", "set", 0, TRUE),
               Field("unenforced", "set", 0, TRUE)>>
      [] type = "ExportKeyRequest" ->
             <<Field("additional_params", "set", 0, TRUE), Field("key_format", "u32", 0, FALSE),
               Field("key_blob", "blob", 0, FALSE)>>
      [] type = "ExportKeyResponse" -> <<Field("key_data", "blob", 0, FALSE)>>
      [] type = "GetVersionRequest" -> <<>>
      [] type = "GetVersionResponse" ->
             <<Field("major_ver", "u8", 0, TRUE), Field("minor_ver", "u8", 0, TRUE),
               Field("subminor_ver", "u8", 0, TRUE)>>

\* The messages that derive from KeymasterResponse, and the others.
Responses ==
    {"SupportedResponse", "GenerateKeyResponse", "GetKeyCharacteristicsResponse",
     "BeginOperationResponse", "UpdateOperationResponse", "FinishOperationResponse",
     "ImportKeyResponse", "ExportKeyResponse", "GetVersionResponse"}

Requests ==
    {"GenerateKeyRequest", "GetKeyCharacteristicsRequest", "BeginOperationRequest",
     "UpdateOperationRequest", "FinishOperationRequest", "AddEntropyRequest",
     "ImportKeyRequest", "ExportKeyRequest", "GetVersionRequest"}

\* The versions a message is constructed with: GetVersion is not versionable.
Versions(type) ==
    IF type \in {"GetVersionRequest", "GetVersionResponse"} THEN {0}
    ELSE 0..MAX_MESSAGE_VERSION

\* A message: a request carries no error and has KM_ERROR_OK here.
Message(type, message_version, error, fields) ==
    [type |-> type, message_version |-> message_version, error |-> error, fields |-> fields]

\* sizeof of an integer member.
Width(codec) == CASE codec = "u8" -> 1 [] codec = "u32" -> 4 [] codec = "u64" -> 8

\* A member's bytes.
FieldSerialize(codec, value) ==
    CASE codec \in {"u8", "u32", "u64"} -> LittleEndian(value, Width(codec))
      [] codec = "blob" -> LittleEndian(value.size, 4) \o value.data
      [] codec = "buffer" -> LittleEndian(Len(value), 4) \o value
      [] codec = "set" -> AuthorizationSet_Serialize(value)
      [] codec = "array" ->
             LittleEndian(Len(value), 4)
                 \o [k \in 1..(4 * Len(value)) |->
                        LittleEndian(value[(k + 3) \div 4], 4)[((k - 1) % 4) + 1]]

\* A member's part of SerializedSize.
FieldSerializedSize(codec, value) ==
    CASE codec \in {"u8", "u32", "u64"} -> Width(codec)
      [] codec = "blob" -> 4 + value.size
      [] codec = "buffer" -> 4 + Len(value)
      [] codec = "set" -> AuthorizationSet_SerializedSize(value)
      [] codec = "array" -> 4 + 4 * Len(value)

\* A member read at the cursor.
FieldDeserialize(codec, buf, pos) ==
    LET data == copy_size_and_data_from_buf(buf, pos)
        count == copy_from_buf(buf, pos, 4)
        n == FromLittleEndian(count.value)
        array == copy_from_buf(buf, count.pos, 4 * n)
    IN  CASE codec \in {"u8", "u32", "u64"} ->
                 LET bytes == copy_from_buf(buf, pos, Width(codec))
                 IN  Parsed(bytes.ok, bytes.pos, Unsigned(bytes.value))
          [] codec = "blob" ->
                 Parsed(data.ok, data.pos, [data |-> data.value, size |-> Len(data.value)])
          [] codec = "buffer" -> data
          [] codec = "set" -> AuthorizationSet_Deserialize(buf, pos)
          [] codec = "array" ->
                 IF count.ok /\ ~Exceeds(count.value, (Len(buf) - count.pos) \div 4)
                     /\ array.ok
                 THEN Parsed(TRUE, array.pos,
                             [i \in 1..n |-> Unsigned(SubSeq(array.value, 4 * i - 3, 4 * i))])
                 ELSE Parsed(FALSE, pos, <<>>)

\* A member no constructor initializes.
FieldDefault_Uninitialized(field, garbage) ==
    CASE field.codec \in {"u8", "u32", "u64"} -> garbage
      [] field.codec = "blob" -> [data |-> <<>>, size |-> garbage]
      [] OTHER -> <<>>

\* A member of a newly constructed message: empty, or whatever the memory
\* holds where the constructor does not initialize it.
FieldDefault(field, garbage) ==
    CASE field.codec \in {"u8", "u32", "u64"} -> IF field.init THEN 0 ELSE garbage
      [] field.codec = "blob" -> [data |-> <<>>, size |-> IF field.init THEN 0 ELSE garbage]
      [] OTHER -> <<>>

\* The members written whatever the version.
RECURSIVE SerializeFields_AllVersions(_, _)
SerializeFields_AllVersions(message, i) ==
    IF i > Len(message.fields) THEN <<>>
    ELSE FieldSerialize(Fields(message.type)[i].codec, message.fields[i])
             \o SerializeFields_AllVersions(message, i + 1)

\* The members of message_version, one after the other.
RECURSIVE SerializeFields(_, _)
SerializeFields(message, i) ==
    IF i > Len(message.fields) THEN <<>>
    ELSE LET field == Fields(message.type)[i]
         IN  (IF field.since <= message.message_version
              THEN FieldSerialize(field.codec, message.fields[i]) ELSE <<>>)
                 \o SerializeFields(message, i + 1)

RECURSIVE SerializedSizeOfFields(_, _)
SerializedSizeOfFields(message, i) ==
    IF i > Len(message.fields) THEN 0
    ELSE LET field == Fields(message.type)[i]
         IN  (IF field.since <= message.message_version
              THEN FieldSerializedSize(field.codec, message.fields[i]) ELSE 0)
                 + SerializedSizeOfFields(message, i + 1)

RECURSIVE DeserializeFields(_, _, _, _, _, _)
DeserializeFields(type, message_version, buf, pos, i, garbage) ==
    IF i > Len(Fields(type)) THEN Parsed(TRUE, pos, <<>>)
    ELSE LET field == Fields(type)[i]
             read == IF field.since <= message_version
                     THEN FieldDeserialize(field.codec, buf, pos)
                     ELSE Parsed(TRUE, pos, FieldDefault(field, garbage))
             rest == DeserializeFields(type, message_version, buf, read.pos, i + 1, garbage)
         IN  IF read.ok THEN Parsed(rest.ok, rest.pos, <<read.value>> \o rest.value)
             ELSE Parsed(FALSE, pos, <<>>)

\* KeymasterResponse::Serialize writing everything whatever the error.
Serialize_Always(message) ==
    (IF message.type \in Responses THEN LittleEndian(ErrorValue(message.error), 4) ELSE <<>>)
        \o SerializeFields(message, 1)

\* Serialize: of a response, KeymasterResponse::Serialize, the error and,
\* when it is KM_ERROR_OK, the members; of a request, the members.
Serialize(message) ==
    IF message.type \in Responses
    THEN LittleEndian(ErrorValue(message.error), 4)
             \o (IF message.error = KM_ERROR_OK THEN SerializeFields(message, 1) ELSE <<>>)
    ELSE SerializeFields(message, 1)

\* SerializedSize.
SerializedSize(message) ==
    IF message.type \in Responses
    THEN 4 + (IF message.error = KM_ERROR_OK THEN SerializedSizeOfFields(message, 1) ELSE 0)
    ELSE SerializedSizeOfFields(message, 1)

\* The message a constructor makes.
NewMessage(type, message_version, garbage) ==
    Message(type, message_version,
            IF type \in Responses THEN KM_ERROR_UNKNOWN_ERROR ELSE KM_ERROR_OK,
            [i \in 1..Len(Fields(type)) |-> FieldDefault(Fields(type)[i], garbage)])

\* Deserialize into a newly constructed message: [ok, pos, value], the
\* message being left as constructed where nothing is read into it.
Deserialize(type, message_version, buf, garbage) ==
    LET new == NewMessage(type, message_version, garbage)
        code == copy_from_buf(buf, 0, 4)
        known == {e \in MessageErrors : ErrorValue(e) = ErrorFromLittleEndian(code.value)}
        error == IF known = {} THEN KM_ERROR_UNKNOWN_ERROR ELSE CHOOSE e \in known : TRUE
        start == IF type \in Responses THEN 4 ELSE 0
        read == DeserializeFields(type, message_version, buf, start, 1, garbage)
    IN  IF type \in Responses /\ ~code.ok THEN Parsed(FALSE, 0, new)
        ELSE IF type \in Responses /\ error # KM_ERROR_OK
        THEN Parsed(TRUE, 4, [new EXCEPT !.error = error])
        ELSE IF ~read.ok THEN Parsed(FALSE, read.pos, new)
        ELSE Parsed(TRUE, read.pos, Message(type, message_version, KM_ERROR_OK, read.value))

\* The values the members of the messages take.
MessageSets ==
    {<<>>,
     <<Authorization(TAG_ALGORITHM, 1), Authorization(TAG_APPLICATION_ID, <<97>>)>>,
     <<Authorization(TAG_APPLICATION_ID, <<97, 112>>), Authorization(TAG_KEY_SIZE, 256),
       Authorization(TAG_APPLICATION_ID, <<112>>)>>}

FieldValues(codec) ==
    CASE codec = "u8" -> {0, 98}
      [] codec = "u32" -> {0, 99}
      [] codec = "u64" -> {0, 48879}
      [] codec = "blob" -> {[data |-> <<>>, size |-> 0],
                            [data |-> <<102, 111, 111>>, size |-> 3]}
      [] codec = "buffer" -> {<<>>, <<98, 97, 114>>}
      [] codec = "set" -> MessageSets
      [] codec = "array" -> {<<>>, <<1, 3, 300>>}

\* What uninitialized memory may hold.
Garbage == {0, 48879}

RECURSIVE FieldProduct(_, _)
FieldProduct(fields, i) ==
    IF i > Len(fields) THEN {<<>>}
    ELSE {<<v>> \o rest : v \in FieldValues(fields[i].codec),
                          rest \in FieldProduct(fields, i + 1)}

\* round_trip, first half: SerializedSize and Serialize of the message.
SerializeMessage ==
    /\ request.call = "message"
    /\ wire = NoWire
    /\ wire' = [type |-> "bytes", size |-> SerializedSize(request.message),
                buf |-> Serialize(request.message)]
    /\ UNCHANGED <<sessionvars, request, key_blob, created, response, buffer, threads>>

\* round_trip, second half: Deserialize into a new message of the version.
DeserializeMessage ==
    /\ wire # NoWire
    /\ response = NoResponse
    /\ \E garbage \in Garbage :
           LET read == Deserialize(request.message.type, request.message.message_version,
                                   wire.buf, garbage)
           IN  response' = [call |-> "Deserialize", ok |-> read.ok, consumed |-> read.pos,
                            message |-> read.value]
    /\ UNCHANGED <<sessionvars, request, key_blob, created, wire, buffer, threads>>

MessageInit ==
    /\ operation_table = [i \in Slots |-> EmptyEntry]
    /\ heap = [p \in OpIds |-> 0]
    /\ nextOp = 1
    /\ issued = {}
    /\ released = {}
    /\ last = Call("none", 0, KM_ERROR_OK, 0, "none", 0, 0)
    /\ \E type \in Requests \cup Responses :
           \E message_version \in Versions(type),
              error \in (IF type \in Responses THEN MessageErrors ELSE {KM_ERROR_OK}),
              fields \in FieldProduct(Fields(type), 1) :
               request = [call |-> "message",
                          message |-> Message(type, message_version, error, fields)]
    /\ key_blob = NoBlob
    /\ created = NoSets
    /\ response = NoResponse
    /\ wire = NoWire
    /\ state = Untracked
    /\ buffer = NoBuffer
    /\ threads = NoThreads

MessageNext == SerializeMessage \/ DeserializeMessage

MessageSpec == MessageInit /\ [][MessageNext]_vars

\* parse_garbage: a message is deserialized from a window of bytes that is
\* not the serialization of one.  The window is what is left of a
\* serialization after its first bytes are dropped, or its last ones, or
\* one of its bytes is replaced.
GarbageBytes == {1, 127, 255}

Windows(buf) ==
    {SubSeq(buf, i + 1, Len(buf)) : i \in 1..Len(buf)}
        \cup {SubSeq(buf, 1, k) : k \in 0..(Len(buf) - 1)}
        \cup {[buf EXCEPT ![i] = b] : i \in 1..Len(buf), b \in GarbageBytes}

CorruptMessage ==
    /\ wire # NoWire
    /\ wire.type = "bytes"
    /\ response = NoResponse
    /\ \E window \in Windows(wire.buf) :
           wire' = [type |-> "garbage", size |-> Len(window), buf |-> window]
    /\ UNCHANGED <<sessionvars, request, key_blob, created, response, buffer, threads>>

GarbageNext == SerializeMessage \/ CorruptMessage \/ DeserializeMessage

GarbageSpec == MessageInit /\ [][GarbageNext]_vars

\* ------------------------------------------------------------ the Buffer
\* size_t: the unsigned integers below SizeModulus; sums and differences wrap.
Sizes == 0..(SizeModulus - 1)

SizeT(n) == n % SizeModulus

\* A Buffer: buffer_ is "null", "owned" (an array the Buffer allocated) or
\* "deleted" (an array it has passed to delete[]); returned is what the
\* last call returned.
BufferOf(buffer_, buffer_size_, read_position_, write_position_, returned) ==
    [buffer_ |-> buffer_, buffer_size_ |-> buffer_size_,
     read_position_ |-> read_position_, write_position_ |-> write_position_,
     call |-> returned[1], returned |-> returned[2]]

available_write(b) == SizeT(b.buffer_size_ - b.write_position_)

available_read(b) == SizeT(b.write_position_ - b.read_position_)

\* Buffer::reserve(size): allocated is whether new gave an array.
reserve(b, size, allocated) ==
    IF available_write(b) < size
    THEN IF ~allocated
         THEN [b EXCEPT !.call = "reserve", !.returned = FALSE]
         ELSE BufferOf("owned", SizeT(b.buffer_size_ + size - available_write(b)), 0,
                       available_read(b), <<"reserve", TRUE>>)
    ELSE [b EXCEPT !.call = "reserve", !.returned = TRUE]

\* Buffer::Reinitialize(size).
Reinitialize(b, size, allocated) ==
    IF ~allocated
    THEN [b EXCEPT !.buffer_ = "null", !.call = "Reinitialize", !.returned = FALSE]
    ELSE BufferOf("owned", size, 0, 0, <<"Reinitialize", TRUE>>)

\* Buffer::Reinitialize(data, data_len).
ReinitializeData(b, data_len, allocated) ==
    IF ~allocated
    THEN [b EXCEPT !.buffer_ = "null", !.call = "Reinitialize", !.returned = FALSE]
    ELSE BufferOf("owned", data_len, 0, data_len, <<"Reinitialize", TRUE>>)

\* Buffer::write(src, write_length).
write(b, write_length) ==
    IF available_write(b) < write_length
    THEN [b EXCEPT !.call = "write", !.returned = FALSE]
    ELSE [b EXCEPT !.write_position_ = SizeT(@ + write_length),
                   !.call = "write", !.returned = TRUE]

\* Buffer::read(dest, read_length).
read(b, read_length) ==
    IF available_read(b) < read_length
    THEN [b EXCEPT !.call = "read", !.returned = FALSE]
    ELSE [b EXCEPT !.read_position_ = SizeT(@ + read_length),
                   !.call = "read", !.returned = TRUE]

\* Buffer::Deserialize(buf_ptr, end): the array is deleted, then the size and
\* the data are read; a failed read is taken to leave the members alone.
BufferDeserialize(b, buf) ==
    LET data == copy_size_and_data_from_buf(buf, 0)
    IN  IF ~data.ok
        THEN [b EXCEPT !.buffer_ = IF @ = "null" THEN "null" ELSE "deleted",
                       !.call = "Deserialize", !.returned = FALSE]
        ELSE BufferOf("owned", Len(data.value), 0, Len(data.value), <<"Deserialize", TRUE>>)

\* The windows a Buffer is deserialized from.
BufferWindows == {<<>>, <<0, 0, 0, 0>>, <<2, 0, 0, 0, 7, 7>>, <<3, 0, 0, 0, 7>>}

BufferReinitialize ==
    /\ buffer # NoBuffer
    /\ \E size \in Sizes, allocated \in BOOLEAN :
           buffer' = Reinitialize(buffer, size, allocated)
    /\ UNCHANGED <<sessionvars, request, key_blob, created, response, wire, threads>>

BufferReinitializeData ==
    /\ buffer # NoBuffer
    /\ \E data_len \in Sizes, allocated \in BOOLEAN :
           buffer' = ReinitializeData(buffer, data_len, allocated)
    /\ UNCHANGED <<sessionvars, request, key_blob, created, response, wire, threads>>

BufferReserve ==
    /\ buffer # NoBuffer
    /\ \E size \in Sizes, allocated \in BOOLEAN :
           buffer' = reserve(buffer, size, allocated)
    /\ UNCHANGED <<sessionvars, request, key_blob, created, response, wire, threads>>

BufferWrite ==
    /\ buffer # NoBuffer
    /\ \E write_length \in Sizes :
           buffer' = write(buffer, write_length)
    /\ UNCHANGED <<sessionvars, request, key_blob, created, response, wire, threads>>

BufferRead ==
    /\ buffer # NoBuffer
    /\ \E read_length \in Sizes :
           buffer' = read(buffer, read_length)
    /\ UNCHANGED <<sessionvars, request, key_blob, created, response, wire, threads>>

BufferDeserializeWindow ==
    /\ buffer # NoBuffer
    /\ \E buf \in BufferWindows :
           buffer' = BufferDeserialize(buffer, buf)
    /\ UNCHANGED <<sessionvars, request, key_blob, created, response, wire, threads>>

\* A Buffer as its constructor leaves it.
BufferInit ==
    /\ operation_table = [i \in Slots |-> EmptyEntry]
    /\ heap = [p \in OpIds |-> 0]
    /\ nextOp = 1
    /\ issued = {}
    /\ released = {}
    /\ last = Call("none", 0, KM_ERROR_OK, 0, "none", 0, 0)
    /\ state = Untracked
    /\ request = NoRequest
    /\ key_blob = NoBlob
    /\ created = NoSets
    /\ response = NoResponse
    /\ wire = NoWire
    /\ buffer = BufferOf("null", 0, 0, 0, <<"Buffer", TRUE>>)
    /\ threads = NoThreads

BufferNext ==
    \/ BufferReinitialize
    \/ BufferReinitializeData
    \/ BufferReserve
    \/ BufferWrite
    \/ BufferRead
    \/ BufferDeserializeWindow

BufferSpec == BufferInit /\ [][BufferNext]_vars

\* ---------------------------------------------------- the input consumed
\* The lengths of the input of an UpdateOperationRequest.
InputLengths == 0..MaxInput

\* HmacOperation::Update(additional_params, input, output, &input_consumed):
\* what the call leaves at input_consumed, which held `before`.
HmacUpdate(error, input_length, before) ==
    IF error # KM_ERROR_OK THEN before ELSE input_length

\* GoogleKeymaster::UpdateOperation(request, &response) with the request's
\* input and a response its caller has just constructed.
UpdateOperationInput ==
    \E op_handle \in Handles, opErr \in UpdateResults, input_length \in InputLengths,
       garbage \in Garbage :
        LET entry == FindOperation(operation_table, op_handle)
            d == DeleteOperation(operation_table, heap, entry)
            new == NewMessage("UpdateOperationResponse", MAX_MESSAGE_VERSION, garbage)
            error == IF entry = NULL THEN KM_ERROR_INVALID_OPERATION_HANDLE ELSE opErr
            input_consumed == IF entry = NULL THEN new.fields[2]
                              ELSE HmacUpdate(opErr, input_length, new.fields[2])
        IN  /\ last' = Call("Update", op_handle, error, 0, "none", 0, 0)
            /\ response' = [call |-> "Update", error |-> error,
                            input_length |-> input_length,
                            input_consumed |-> input_consumed]
            /\ IF entry = NULL
               THEN UNCHANGED <<operation_table, heap, state>>
               ELSE IF Invalidates(opErr)
               THEN operation_table' = d.table /\ heap' = d.heap /\ state' = state
               ELSE /\ UNCHANGED <<operation_table, heap>>
                    /\ state' = Becomes(operation_table[entry].operation, "updating")
            /\ UNCHANGED <<nextOp, issued, released, request, key_blob, created, wire,
                           buffer, threads>>

UpdateNext ==
    \/ BeginOperation
    \/ UpdateOperationInput
    \/ FinishOperation
    \/ AbortOperation

UpdateSpec == Init /\ [][UpdateNext]_vars

\* ------------------------------------------------ two calls at the same time
\* BeginOperation called by two threads on one GoogleKeymaster.  The table
\* has no lock, so the calls interleave between any two of their reads and
\* writes of operation_table_: AddOperation's read of a slot's operation,
\* its write of the operation and its write of the handle are steps of
\* their own.  A call's locals: where it is (pc), the slot index i, the
\* Operation it created, the handle drawn, the error it returns, and
\* whether the other call was in progress at any time during it.
Threads == 1..2

IdleCall == [pc |-> "idle", i |-> 0, operation |-> NULL, op_handle |-> 0,
             error |-> KM_ERROR_OK, interleaved |-> FALSE]

InProgress(call) == call.pc \notin {"idle", "done"}

\* BeginOperation up to AddOperation's loop: the key is loaded, the operation
\* created and begun, and RAND_bytes draws the handle.
RaceBegin(t) ==
    /\ threads # NoThreads
    /\ threads[t].pc = "idle"
    /\ nextOp <= MaxOps
    /\ \E draw \in Handles :
           /\ threads' = [u \in Threads |->
                  IF u # t
                  THEN [threads[u] EXCEPT !.interleaved = @ \/ InProgress(threads[u])]
                  ELSE IF draw = 0
                  THEN [pc |-> "done", i |-> 0, operation |-> nextOp, op_handle |-> 0,
                        error |-> KM_ERROR_UNKNOWN_ERROR, interleaved |-> FALSE]
                  ELSE [pc |-> "scan", i |-> 1, operation |-> nextOp, op_handle |-> draw,
                        error |-> KM_ERROR_OK,
                        interleaved |-> \E v \in Threads \ {t} : InProgress(threads[v])]]
           /\ heap' = IF draw = 0 THEN Delete(heap, nextOp) ELSE heap
    /\ nextOp' = nextOp + 1
    /\ UNCHANGED <<operation_table, issued, released, last, state, request, key_blob,
                   created, response, wire, buffer>>

\* if (operation_table_[i].operation == NULL), or the loop's end.
RaceScan(t) ==
    /\ threads # NoThreads
    /\ threads[t].pc = "scan"
    /\ LET c == threads[t]
       IN  IF c.i > TableSize
           THEN /\ threads' = [threads EXCEPT ![t].pc = "done",
                                              ![t].error = KM_ERROR_TOO_MANY_OPERATIONS]
                /\ heap' = Delete(heap, c.operation)
           ELSE /\ threads' = [threads EXCEPT ![t] =
                       IF c.i \in FreeSlots(operation_table)
                       THEN [c EXCEPT !.pc = "store_operation"]
                       ELSE [c EXCEPT !.i = @ + 1]]
                /\ heap' = heap
    /\ UNCHANGED <<operation_table, nextOp, issued, released, last, state, request,
                   key_blob, created, response, wire, buffer>>

\* operation_table_[i].operation = op.release();
RaceStoreOperation(t) ==
    /\ threads # NoThreads
    /\ threads[t].pc = "store_operation"
    /\ operation_table' = [operation_table EXCEPT ![threads[t].i].operation =
                                                      threads[t].operation]
    /\ threads' = [threads EXCEPT ![t].pc = "store_handle"]
    /\ UNCHANGED <<heap, nextOp, issued, released, last, state, request, key_blob,
                   created, response, wire, buffer>>

\* operation_table_[i].handle = *op_handle; return KM_ERROR_OK;
RaceStoreHandle(t) ==
    /\ threads # NoThreads
    /\ threads[t].pc = "store_handle"
    /\ operation_table' = [operation_table EXCEPT ![threads[t].i].handle =
                                                      threads[t].op_handle]
    /\ threads' = [threads EXCEPT ![t].pc = "done"]
    /\ UNCHANGED <<heap, nextOp, issued, released, last, state, request, key_blob,
                   created, response, wire, buffer>>

RaceInit ==
    /\ operation_table = [i \in Slots |-> EmptyEntry]
    /\ heap = [p \in OpIds |-> 0]
    /\ nextOp = 1
    /\ issued = {}
    /\ released = {}
    /\ last = Call("none", 0, KM_ERROR_OK, 0, "none", 0, 0)
    /\ state = Untracked
    /\ request = NoRequest
    /\ key_blob = NoBlob
    /\ created = NoSets
    /\ response = NoResponse
    /\ wire = NoWire
    /\ buffer = NoBuffer
    /\ threads = [t \in Threads |-> IdleCall]

RaceNext ==
    \E t \in Threads :
        \/ RaceBegin(t)
        \/ RaceScan(t)
        \/ RaceStoreOperation(t)
        \/ RaceStoreHandle(t)

RaceSpec == RaceInit /\ [][RaceNext]_vars

\* ------------------------------------------------- finishing an HMAC
KM_ERROR_INVALID_INPUT_LENGTH == "INVALID_INPUT_LENGTH"

\* The bytes of a MAC and of a signature.
MacBytes == {0, 1}

RECURSIVE ByteStrings(_)
ByteStrings(n) ==
    IF n = 0 THEN {<<>>}
    ELSE {<<b>> \o s : b \in MacBytes, s \in ByteStrings(n - 1)}

\* CRYPTO_memcmp(a, b, n) over the first n bytes: 0 when they are equal.
CRYPTO_memcmp(a, b, n) == IF \A k \in 1..n : a[k] = b[k] THEN 0 ELSE 1

\* HmacOperation::Finish(additional_params, signature, output): digest is
\* what HMAC_Final computed (final says whether it succeeded), tag_length the
\* operation's tag_length_, allocated whether output->reserve got its array.
HmacFinish(purpose, final, digest, tag_length, signature, allocated) ==
    IF ~final THEN KM_ERROR_UNKNOWN_ERROR
    ELSE CASE purpose = KM_PURPOSE_SIGN ->
                  IF tag_length > Len(digest) THEN KM_ERROR_UNSUPPORTED_MAC_LENGTH
                  ELSE IF ~allocated THEN KM_ERROR_MEMORY_ALLOCATION_FAILED
                  ELSE KM_ERROR_OK
           [] purpose = KM_PURPOSE_VERIFY ->
                  IF Len(signature) > Len(digest) THEN KM_ERROR_INVALID_INPUT_LENGTH
                  ELSE IF CRYPTO_memcmp(signature, digest, Len(signature)) # 0
                  THEN KM_ERROR_VERIFICATION_FAILED
                  ELSE KM_ERROR_OK
           [] OTHER -> KM_ERROR_UNSUPPORTED_PURPOSE

\* An HMAC operation is finished with the request's signature.
HmacOperationFinish ==
    /\ request # NoRequest
    /\ request.call = "HmacFinish"
    /\ response = NoResponse
    /\ \E final \in BOOLEAN, allocated \in BOOLEAN :
           LET error == HmacFinish(request.purpose, final, request.digest,
                                   request.tag_length, request.signature, allocated)
           IN  response' = [call |-> "HmacFinish", error |-> error,
                            output |-> IF error = KM_ERROR_OK
                                          /\ request.purpose = KM_PURPOSE_SIGN
                                       THEN SubSeq(request.digest, 1, request.tag_length)
                                       ELSE <<>>]
    /\ UNCHANGED <<sessionvars, request, key_blob, created, wire, buffer, threads>>

\* An HMAC operation that has begun and been updated: its purpose, the MAC
\* HMAC_Final will compute, its tag length, and the signature of the
\* FinishOperationRequest.
HmacInit ==
    /\ operation_table = [i \in Slots |-> EmptyEntry]
    /\ heap = [p \in OpIds |-> 0]
    /\ nextOp = 1
    /\ issued = {}
    /\ released = {}
    /\ last = Call("none", 0, KM_ERROR_OK, 0, "none", 0, 0)
    /\ state = Untracked
    /\ \E purpose \in {KM_PURPOSE_SIGN, KM_PURPOSE_VERIFY},
          digest \in ByteStrings(MaxMac),
          tag_length \in 1..(MaxMac + 1),
          n \in 0..(MaxMac + 1) :
           \E signature \in ByteStrings(n) :
               request = [call |-> "HmacFinish", purpose |-> purpose, digest |-> digest,
                          tag_length |-> tag_length, signature |-> signature]
    /\ key_blob = NoBlob
    /\ created = NoSets
    /\ response = NoResponse
    /\ wire = NoWire
    /\ buffer = NoBuffer
    /\ threads = NoThreads

HmacNext == HmacOperationFinish

HmacSpec == HmacInit /\ [][HmacNext]_vars

\* ------------------------------------------------------------ the claims
UFA == {"Update", "Finish", "Abort"}

\* C1: once Finish or Abort has returned for a handle that a successful Begin
\* issued, every later Update, Finish or Abort with that handle returns
\* INVALID_OPERATION_HANDLE.
C1_ReleasedHandleInvalid ==
    [][(last'.call \in UFA /\ last'.handle \in released)
         => last'.error = KM_ERROR_INVALID_OPERATION_HANDLE]_vars

\* C2: an Update or Finish that returns an error of the operation (so it was
\* called on a live handle) releases that handle: the table no longer holds
\* it, so a following Abort on it returns INVALID_OPERATION_HANDLE.
C2_ErrorReleasesHandle ==
    (/\ last.call \in {"Update", "Finish"}
     /\ last.error \notin {KM_ERROR_OK, KM_ERROR_INVALID_OPERATION_HANDLE})
        => FindOperation(operation_table, last.handle) = NULL

\* C3: a call that returns an error leaves the set of live handles as it was,
\* except that a failing Update or Finish removes exactly the handle it was
\* called with.
C3_FailingCallFrame ==
    [][last'.error # KM_ERROR_OK =>
         LiveHandles(operation_table') =
             IF last'.call \in {"Update", "Finish"}
             THEN LiveHandles(operation_table) \ {last'.handle}
             ELSE LiveHandles(operation_table)]_vars

\* C4: the handles returned by successful Begin calls are pairwise distinct,
\* handles released since included: a Begin that returns OK returns a handle
\* that no earlier Begin returned.
C4_HandlesDistinct ==
    [][(last'.call = "Begin" /\ last'.error = KM_ERROR_OK /\ nextOp' # nextOp)
         => last'.op_handle \notin issued]_vars

\* C5: every Begin that returns OK returns a non-zero op_handle, whatever the
\* random source drew.
C5_BeginHandleNonZero ==
    (last.call = "Begin" /\ last.error = KM_ERROR_OK) => last.op_handle # 0

C5_Witness ==
    /\ last.call = "Begin"
    /\ last.stage = "add"
    /\ last.error = KM_ERROR_OK
    /\ last.op_handle = last.draw
    /\ last.op_handle # 0

\* C6 (as claimed): a Begin that reaches handle allocation (the key loaded, the
\* operation's Begin returned OK) while every slot is live returns
\* TOO_MANY_OPERATIONS and stores nothing.
C6_FullTableTooMany ==
    [][(last'.call = "Begin" /\ last'.stage = "add" /\ TableFull(operation_table))
         => (/\ last'.error = KM_ERROR_TOO_MANY_OPERATIONS
             /\ operation_table' = operation_table)]_vars

\* C6 (amended): such a Begin stores nothing; it returns TOO_MANY_OPERATIONS
\* when RAND_bytes succeeded with a non-zero draw and UNKNOWN_ERROR when
\* RAND_bytes failed or drew 0, the draw coming before the search for a slot.
C6_FullTableAmended ==
    [][(last'.call = "Begin" /\ last'.stage = "add" /\ TableFull(operation_table))
         => (/\ operation_table' = operation_table
             /\ last'.error = IF last'.randRet = 1 /\ last'.draw # 0
                              THEN KM_ERROR_TOO_MANY_OPERATIONS
                              ELSE KM_ERROR_UNKNOWN_ERROR)]_vars

C6_Witness ==
    /\ last.call = "Begin"
    /\ last.stage = "add"
    /\ last.error = KM_ERROR_TOO_MANY_OPERATIONS
    /\ TableFull(operation_table)
    /\ TableSize > 0

\* C7 (as claimed): a draw of 0 is retried, so with RAND_bytes succeeding and
\* a slot free a zero draw does not make Begin return an error.
C7_ZeroDrawRetried ==
    [][(/\ last'.call = "Begin"
        /\ last'.stage = "add"
        /\ last'.randRet = 1
        /\ last'.draw = 0
        /\ ~TableFull(operation_table))
         => last'.error = KM_ERROR_OK]_vars

\* C7 (amended): a draw of 0 is rejected without a retry: Begin returns
\* UNKNOWN_ERROR with op_handle 0 and stores nothing in the table.
C7_ZeroDrawRejected ==
    [][(/\ last'.call = "Begin"
        /\ last'.stage = "add"
        /\ last'.randRet = 1
        /\ last'.draw = 0)
         => (/\ last'.error = KM_ERROR_UNKNOWN_ERROR
             /\ last'.op_handle = 0
             /\ operation_table' = operation_table)]_vars

C7_Witness ==
    /\ last.call = "Begin"
    /\ last.stage = "add"
    /\ last.randRet = 1
    /\ last.draw = 0
    /\ last.error = KM_ERROR_UNKNOWN_ERROR
    /\ ~TableFull(operation_table)

\* C8: after a Begin that returned an error, the response's op_handle names no
\* live operation: Abort with it returns INVALID_OPERATION_HANDLE and releases
\* nothing.
C8_FailedBeginHandleDead ==
    (last.call = "Begin" /\ last.error # KM_ERROR_OK)
        => FindOperation(operation_table, last.op_handle) = NULL

\* C9: between calls every slot is either empty (handle 0, no operation) or
\* live (non-zero handle and an operation).
C9_SlotEmptyOrLive ==
    \A i \in Slots :
        \/ operation_table[i].handle = 0 /\ operation_table[i].operation = NULL
        \/ operation_table[i].handle # 0 /\ operation_table[i].operation # NULL

C9_Witness ==
    /\ last.call \in {"Finish", "Abort"}
    /\ last.error # KM_ERROR_INVALID_OPERATION_HANDLE
    /\ \E i \in Slots : operation_table[i] = EmptyEntry
    /\ \E i \in Slots : operation_table[i].handle # 0

Holders(p) == {i \in Slots : operation_table[i].operation = p}

\* C10: every operation object that Begin created is held by exactly one slot
\* and not destroyed, or held by none and destroyed exactly once; an object
\* not yet created is held by no slot.
C10_OperationOwnedOrDestroyed ==
    \A p \in OpIds :
        IF p < nextOp
        THEN \/ Cardinality(Holders(p)) = 1 /\ heap[p] = 0
             \/ Holders(p) = {} /\ heap[p] = 1
        ELSE Holders(p) = {} /\ heap[p] = 0

C10_Witness ==
    /\ last.call = "Begin"
    /\ last.error = KM_ERROR_TOO_MANY_OPERATIONS
    /\ \E p \in OpIds : Cardinality(Holders(p)) = 1 /\ heap[p] = 0
    /\ heap[nextOp - 1] = 1
    /\ \E p \in OpIds : p < nextOp - 1 /\ heap[p] = 1

\* ------------------------------------------- the claims on key creation
\* The description the key calls of a run are made with, and whether the last
\* key call was a creating call (and succeeded).
D == request.key_description
Creating == response.call \in {"GenerateKey", "ImportKey"}
CreatedOK == Creating /\ response.error = KM_ERROR_OK

\* C13: a successful GenerateKey or ImportKey with description D returns an
\* empty enforced set and an unenforced set that has no APPLICATION_ID,
\* APPLICATION_DATA or ROOT_OF_TRUST, has every other entry of D as often as D
\* has it, has one ORIGIN (SOFTWARE for generate, IMPORTED for import) and one
\* CREATION_DATETIME, and otherwise only defaults the factory derived: entries
\* of ALGORITHM, KEY_SIZE or RSA_PUBLIC_EXPONENT for a tag D does not have.
C13_CreationCharacteristics ==
    CreatedOK =>
        /\ response.enforced = <<>>
        /\ \A i \in 1..Len(response.unenforced) :
               response.unenforced[i].tag \notin
                   {TAG_APPLICATION_ID, TAG_APPLICATION_DATA, TAG_ROOT_OF_TRUST}
        /\ \A i \in 1..Len(D) :
               D[i].tag \notin {TAG_APPLICATION_ID, TAG_APPLICATION_DATA, TAG_ROOT_OF_TRUST}
                   => Count(response.unenforced, D[i]) = Count(D, D[i])
        /\ Entries(response.unenforced, {TAG_ORIGIN}) =
               <<Authorization(TAG_ORIGIN, IF response.call = "GenerateKey"
                                           THEN KM_ORIGIN_SOFTWARE
                                           ELSE KM_ORIGIN_IMPORTED)>>
        /\ Len(Entries(response.unenforced, {TAG_CREATION_DATETIME})) = 1
        /\ \A i \in 1..Len(response.unenforced) :
               \/ response.unenforced[i].tag \in {TAG_ORIGIN, TAG_CREATION_DATETIME}
               \/ Count(D, response.unenforced[i]) > 0
               \/ /\ response.unenforced[i].tag \in
                         {TAG_ALGORITHM, TAG_KEY_SIZE, TAG_RSA_PUBLIC_EXPONENT}
                  /\ ~Contains(D, response.unenforced[i].tag)

\* An import succeeded for a description with an APPLICATION_ID, an
\* APPLICATION_DATA and a PURPOSE.
C13_Witness ==
    /\ response.call = "ImportKey"
    /\ response.error = KM_ERROR_OK
    /\ Contains(D, TAG_APPLICATION_ID)
    /\ Contains(D, TAG_APPLICATION_DATA)
    /\ Contains(response.unenforced, TAG_KEY_SIZE)

\* C14, as stated: a GenerateKey or ImportKey whose description contains
\* ROOT_OF_TRUST or ORIGIN answers INVALID_TAG and returns no key blob.
C14_InvalidTagRejected ==
    (Creating /\ (Contains(D, TAG_ROOT_OF_TRUST) \/ Contains(D, TAG_ORIGIN)))
        => /\ response.error = KM_ERROR_INVALID_TAG
           /\ ~response.key_blob.sealed

\* The first ROOT_OF_TRUST or ORIGIN entry of D (0 if none), and whether a
\* ROLLBACK_RESISTANT entry comes before it.
FirstInvalidTag ==
    IF \E i \in 1..Len(D) : D[i].tag \in {TAG_ROOT_OF_TRUST, TAG_ORIGIN}
    THEN CHOOSE i \in 1..Len(D) :
             /\ D[i].tag \in {TAG_ROOT_OF_TRUST, TAG_ORIGIN}
             /\ \A j \in 1..(i - 1) : D[j].tag \notin {TAG_ROOT_OF_TRUST, TAG_ORIGIN}
    ELSE 0
RollbackResistantFirst ==
    \E j \in 1..Len(D) : j < FirstInvalidTag /\ D[j].tag = TAG_ROLLBACK_RESISTANT

\* Whether the key factory of D's algorithm makes a key for the request.
FactoryMakesKey ==
    /\ Contains(D, TAG_ALGORITHM)
    /\ GetTagValue(D, TAG_ALGORITHM, "") \in KeyFactoryRegistry
    /\ IF response.call = "GenerateKey"
       THEN FactoryGenerateKey(GetTagValue(D, TAG_ALGORITHM, ""), D).error = KM_ERROR_OK
       ELSE FactoryImportKey(GetTagValue(D, TAG_ALGORITHM, ""), D, request.pkey).error
                = KM_ERROR_OK

\* C14, amended: a GenerateKey or ImportKey whose description contains
\* ROOT_OF_TRUST or ORIGIN never succeeds and returns no key blob; its error is
\* INVALID_TAG when the key factory made a key and no ROLLBACK_RESISTANT entry
\* precedes the first such tag, UNSUPPORTED_TAG when one does, and otherwise
\* the error of the algorithm lookup or of the key factory.
C14_InvalidTagAmended ==
    (Creating /\ FirstInvalidTag # 0)
        => /\ response.error # KM_ERROR_OK
           /\ ~response.key_blob.sealed
           /\ (FactoryMakesKey /\ ~RollbackResistantFirst)
                  => response.error = KM_ERROR_INVALID_TAG
           /\ (FactoryMakesKey /\ RollbackResistantFirst)
                  => response.error = KM_ERROR_UNSUPPORTED_TAG
           /\ ~FactoryMakesKey
                  => response.error \notin {KM_ERROR_INVALID_TAG, KM_ERROR_UNSUPPORTED_TAG}

\* A GenerateKey for an RSA key whose description ends with ORIGIN was refused
\* with INVALID_TAG.
C14_Witness ==
    /\ response.call = "GenerateKey"
    /\ Len(D) = 3
    /\ D[1].tag = TAG_ALGORITHM
    /\ D[3].tag = TAG_ORIGIN
    /\ response.error = KM_ERROR_INVALID_TAG
    /\ ~response.key_blob.sealed

\* The APPLICATION_ID and APPLICATION_DATA of a set of parameters.
Application(set) ==
    <<Entries(set, {TAG_APPLICATION_ID}), Entries(set, {TAG_APPLICATION_DATA})>>

EcdsaGenerated ==
    /\ response.call = "GenerateKey"
    /\ Len(D) = 2
    /\ D[1] = Authorization(TAG_ALGORITHM, KM_ALGORITHM_ECDSA)
    /\ D[2].tag = TAG_KEY_SIZE

C17_RsaImportKeySize ==
    (/\ response.call = "ImportKey"
     /\ Len(D) = 2
     /\ D[1] = Authorization(TAG_ALGORITHM, KM_ALGORITHM_RSA)
     /\ D[2].tag = TAG_KEY_SIZE)
        => IF D[2].value = request.pkey.key_size
           THEN response.error = KM_ERROR_OK
           ELSE response.error = KM_ERROR_IMPORT_PARAMETER_MISMATCH

\* ------------------------------------------ the claims on using a key
\* A step of BeginOperation on the key the client holds.
BeginStep == last'.call = "Begin" /\ (last' # last \/ nextOp' # nextOp)

\* The requested purpose is one of the PURPOSE authorizations stored in the key.
Authorized ==
    /\ key_blob.sealed
    /\ Count(KeyAuthorizations(key_blob), Authorization(TAG_PURPOSE, request.purpose)) > 0

\* C11: BeginOperation returns OK only if the requested purpose is one of the
\* PURPOSE authorizations stored in the key; a purpose the key is not
\* authorized for is rejected and takes no slot of the operation table.
C11_PurposeAuthorized ==
    [][BeginStep =>
         /\ last'.error = KM_ERROR_OK => Authorized
         /\ ~Authorized => /\ last'.error # KM_ERROR_OK
                           /\ operation_table' = operation_table]_vars

\* The request's APPLICATION_ID or APPLICATION_DATA differ from those the
\* blob was created with.
ApplicationDiffers ==
    /\ key_blob.sealed
    /\ Application(request.additional_params) # Application(D)

BadMacLength ==
    /\ key_blob.sealed
    /\ LoadKey(key_blob, request.additional_params).error = KM_ERROR_OK
    /\ BlobAlgorithm(key_blob) = KM_ALGORITHM_HMAC
    /\ GetTagValue(KeyAuthorizations(key_blob), TAG_DIGEST, KM_DIGEST_NONE) \in HmacDigests
    /\ Contains(request.additional_params, TAG_MAC_LENGTH)
    /\ LET m == GetTagValue(request.additional_params, TAG_MAC_LENGTH, 0)
           digest == GetTagValue(KeyAuthorizations(key_blob), TAG_DIGEST, KM_DIGEST_NONE)
       IN  m % 8 # 0 \/ m \div 8 > digest_len(digest)

\* C18: BeginOperation on an HMAC key returns UNSUPPORTED_MAC_LENGTH whenever
\* MAC_LENGTH is not a multiple of 8 or exceeds the digest's output length:
\* the operation gets no handle and does not enter the operation table.
C18_MacLengthAtBegin ==
    [][BeginStep /\ BadMacLength =>
         /\ last'.error = KM_ERROR_UNSUPPORTED_MAC_LENGTH
         /\ last'.op_handle = 0
         /\ operation_table' = operation_table]_vars

\* ------------------------------------------- the claims on the messages
\* The message that is serialized, and the message read back.
X == request.message

Y == response.message

Serialized == request.call = "message" /\ wire.type = "bytes"

Deserialized == Serialized /\ response.call = "Deserialize"

\* C19: for every message type, every message version and every valid
\* message x, deserializing the serialization of x yields a message equal to
\* x, SerializedSize() is the number of bytes Serialize writes, and
\* Deserialize consumes that many bytes.
C19_RoundTrip ==
    /\ Serialized => wire.size = Len(wire.buf)
    /\ Deserialized => /\ response.ok
                       /\ response.consumed = wire.size
                       /\ Y = X

\* Member i of the message is in its bytes.
OnWire(message, i) ==
    /\ Fields(message.type)[i].since <= message.message_version
    /\ message.type \in Responses => message.error = KM_ERROR_OK

\* C19, amended: the message read back has the type, the version, the error
\* and every member that is in the bytes of x; input_consumed of a version 0
\* UpdateOperationResponse comes back 0; the sizes are as claimed.
C19_RoundTripOnWire ==
    /\ Serialized => wire.size = Len(wire.buf)
    /\ Deserialized =>
           /\ response.ok
           /\ response.consumed = wire.size
           /\ Y.type = X.type
           /\ Y.message_version = X.message_version
           /\ Y.error = X.error
           /\ Len(Y.fields) = Len(X.fields)
           /\ \A i \in 1..Len(X.fields) : OnWire(X, i) => Y.fields[i] = X.fields[i]
           /\ X.type = "UpdateOperationResponse" /\ X.message_version = 0
                  => Y.fields[2] = 0

\* A version 0 UpdateOperationResponse with output and input_consumed 99 came
\* back with the output and input_consumed 0.
C19_Witness ==
    /\ Deserialized
    /\ X = Message("UpdateOperationResponse", 0, KM_ERROR_OK, <<(<<98, 97, 114>>), 99>>)
    /\ Y.fields = <<(<<98, 97, 114>>), 0>>
    /\ response.consumed = 11

\* The response serialized has an error other than KM_ERROR_OK.
ErrorResponse ==
    /\ request.call = "message"
    /\ X.type \in Responses
    /\ X.error # KM_ERROR_OK

\* C20: a response whose error is not OK serializes to the 4 bytes of the
\* error and nothing else, and deserializing those bytes yields a response
\* with that error and every other member at its empty default.
C20_ErrorOnly ==
    ErrorResponse =>
        /\ Serialized => /\ wire.buf = LittleEndian(ErrorValue(X.error), 4)
                         /\ wire.size = 4
        /\ Deserialized =>
               /\ response.ok
               /\ Y.error = X.error
               /\ \A i \in 1..Len(Y.fields) :
                      Y.fields[i] = FieldDefault([Fields(X.type)[i] EXCEPT !.init = TRUE], 0)

\* ------------------------------------------- the claims on the versions
\* The message at another version, and the other version of a versionable
\* message.
AtVersion(message, message_version) == [message EXCEPT !.message_version = message_version]

Versionable == Serialized /\ Versions(X.type) = 0..MAX_MESSAGE_VERSION

CarriesInputConsumed == X.type = "UpdateOperationResponse" /\ X.error = KM_ERROR_OK

\* C21: the version 0 and version 1 encodings of a message differ only for
\* UpdateOperationResponse: version 0 is written without input_consumed and
\* read back with input_consumed 0, version 1 carries input_consumed.
C21_VersionDifference ==
    Versionable =>
        LET v0 == Serialize(AtVersion(X, 0))
            v1 == Serialize(AtVersion(X, 1))
        IN  /\ wire.buf = IF X.message_version = 0 THEN v0 ELSE v1
            /\ IF CarriesInputConsumed
               THEN v1 = v0 \o LittleEndian(X.fields[2], 4)
               ELSE v1 = v0
            /\ Deserialized /\ CarriesInputConsumed
                   => /\ Y.fields[1] = X.fields[1]
                      /\ Y.fields[2] = IF X.message_version = 0 THEN 0 ELSE X.fields[2]
            /\ Deserialized /\ ~CarriesInputConsumed
                   => \A garbage \in Garbage :
                          Deserialize(X.type, 0, wire.buf, garbage).value.fields =
                              Deserialize(X.type, 1, wire.buf, garbage).value.fields

\* A version 1 UpdateOperationResponse came back with its input_consumed 99.
C21_Witness ==
    /\ Deserialized
    /\ X = Message("UpdateOperationResponse", 1, KM_ERROR_OK, <<(<<98, 97, 114>>), 99>>)
    /\ Y = X
    /\ Len(wire.buf) = 15

\* ------------------------------------------- the claims on garbage
\* A message was deserialized from the window of bytes.
GarbageRead == wire # NoWire /\ response.call = "Deserialize"

\* Where the members of the message start in the window.
MembersStart == IF X.type \in Responses THEN 4 ELSE 0

\* The first member of the message is size-prefixed bytes, the window holds
\* its length prefix (after an error of KM_ERROR_OK in a response), and the
\* prefix is larger than the number of bytes the window has after it.
LengthPrefixTooLarge ==
    /\ wire # NoWire
    /\ Fields(X.type) # <<>>
    /\ Fields(X.type)[1].codec \in {"blob", "buffer"}
    /\ Fields(X.type)[1].since <= X.message_version
    /\ Len(wire.buf) >= MembersStart + 4
    /\ X.type \in Responses => SubSeq(wire.buf, 1, 4) = <<0, 0, 0, 0>>
    /\ Exceeds(SubSeq(wire.buf, MembersStart + 1, MembersStart + 4),
               Len(wire.buf) - (MembersStart + 4))

\* C22: deserializing a message of any type from any window of bytes ends
\* with true or false and with the cursor within the window, and a length
\* prefix larger than the bytes left after it makes it end with false.
C22_GarbageBounded ==
    GarbageRead =>
        /\ response.ok \in BOOLEAN
        /\ response.consumed \in 0..Len(wire.buf)
        /\ LengthPrefixTooLarge => ~response.ok

\* A window whose length prefix says more bytes than it has was rejected.
C22_Witness ==
    /\ GarbageRead
    /\ wire.type = "garbage"
    /\ LengthPrefixTooLarge
    /\ ~response.ok

\* ------------------------------------------- the claims on the Buffer
\* C23: after any sequence of Reinitialize, reserve, write, read and
\* Deserialize calls on a Buffer, whether they succeed or fail,
\* read_position <= write_position <= buffer_size.
C23_BufferPositions ==
    buffer # NoBuffer =>
        /\ buffer.read_position_ <= buffer.write_position_
        /\ buffer.write_position_ <= buffer.buffer_size_

\* ------------------------------------------- the claims on the input
\* C24: every UpdateOperation response has input_consumed at most the
\* length of the request's input, the responses that carry an error, such
\* as INVALID_OPERATION_HANDLE, included.
C24_InputConsumed ==
    response.call = "Update" => response.input_consumed <= response.input_length

\* After a Begin had issued a handle, an Update with input for a handle the
\* table does not hold answered INVALID_OPERATION_HANDLE and input_consumed 0.
C24_Witness ==
    /\ response.call = "Update"
    /\ response.input_length = MaxInput
    /\ response.error = KM_ERROR_INVALID_OPERATION_HANDLE
    /\ response.input_consumed = 0
    /\ issued # {}

\* ------------------------------------- the claims on the life of operations
\* The step is a Finish or an Abort with a handle the table holds.
FinishOrAbortLive ==
    /\ last'.call \in {"Finish", "Abort"}
    /\ last'.handle \in LiveHandles(operation_table)

\* C25: a FinishOperation or AbortOperation on a live handle h empties
\* exactly one slot, one that held h; every other slot keeps its handle and
\* its operation object, and that object is in the state it was in and is
\* not destroyed.
C25_FinishAbortFrame ==
    [][FinishOrAbortLive =>
         \E e \in Slots :
             /\ operation_table[e].handle = last'.handle
             /\ operation_table[e].operation # NULL
             /\ operation_table'[e] = EmptyEntry
             /\ \A i \in Slots \ {e} :
                    /\ operation_table'[i] = operation_table[i]
                    /\ operation_table[i].operation # NULL =>
                           /\ state'[operation_table[i].operation]
                                  = state[operation_table[i].operation]
                           /\ heap'[operation_table[i].operation]
                                  = heap[operation_table[i].operation]]_vars

\* A Finish has emptied a slot while another slot holds an operation that
\* has been updated.
C25_Witness ==
    /\ last.call = "Finish"
    /\ last.error # KM_ERROR_INVALID_OPERATION_HANDLE
    /\ \E i \in Slots : operation_table[i] = EmptyEntry
    /\ \E i \in Slots : /\ operation_table[i].operation # NULL
                        /\ state[operation_table[i].operation] = "updating"

\* C26: an operation is in the table only after its own Begin returned OK:
\* the object of every live handle is in state begun or updating, never
\* created, finished or aborted.
C26_LiveBegunOrUpdating ==
    state # Untracked =>
        \A i \in Slots :
            operation_table[i].operation # NULL =>
                state[operation_table[i].operation] \in {"begun", "updating"}

\* The table holds an operation that has begun while one object's Begin has
\* failed and another object has been aborted.
C26_Witness ==
    /\ state # Untracked
    /\ \E i \in Slots : /\ operation_table[i].operation # NULL
                        /\ state[operation_table[i].operation] = "begun"
    /\ \E p \in OpIds : state[p] = "created"
    /\ \E p \in OpIds : state[p] = "aborted"

\* C27: after an UpdateOperation on a live handle h has returned OK, h is
\* still live and bound to the same operation object: the Update left the
\* table as it was, and the next Update, Finish or Abort on h does not return
\* INVALID_OPERATION_HANDLE and acts on the object that was updated.
C27_UpdateKeepsHandle ==
    /\ [][(last'.call = "Update" /\ last'.error = KM_ERROR_OK)
            => (/\ last'.handle \in LiveHandles(operation_table)
                /\ operation_table' = operation_table
                /\ heap' = heap)]_vars
    /\ [][(/\ last.call = "Update"
           /\ last.error = KM_ERROR_OK
           /\ last'.call \in UFA
           /\ last'.handle = last.handle)
            => (/\ last'.error # KM_ERROR_INVALID_OPERATION_HANDLE
                /\ LET p == operation_table[FindOperation(operation_table, last.handle)].operation
                   IN  /\ state[p] = "updating"
                       /\ state'[p] = CASE last'.call = "Update" -> "updating"
                                        [] last'.call = "Finish" -> "finished"
                                        [] last'.call = "Abort" -> "aborted")]_vars

\* An Update has returned OK for a handle whose slot is not the first, and
\* the table holds the handle with the object updated.
C27_Witness ==
    /\ last.call = "Update"
    /\ last.error = KM_ERROR_OK
    /\ FindOperation(operation_table, last.handle) > 1
    /\ state[operation_table[FindOperation(operation_table, last.handle)].operation]
           = "updating"

\* The step is a BeginOperation that got as far as the random draw (its key
\* loaded, its purpose supported, its operation begun), RAND_bytes gave a
\* non-zero handle, and the step before was a Finish or an Abort that
\* reached an operation.
BeginAfterRelease ==
    /\ last.call \in {"Finish", "Abort"}
    /\ last.error # KM_ERROR_INVALID_OPERATION_HANDLE
    /\ last'.call = "Begin"
    /\ last'.stage = "add"
    /\ last'.randRet = 1
    /\ last'.draw # 0

\* C28: capacity is recoverable: once a live operation has been finished or
\* aborted, whether or not the table was full, the table has a free slot and
\* the next BeginOperation that gets a non-zero random draw returns OK with
\* the draw as its handle and its operation in the table.
C28_CapacityRecoverable ==
    /\ [][FinishOrAbortLive => ~TableFull(operation_table')]_vars
    /\ [][BeginAfterRelease =>
            /\ last'.error = KM_ERROR_OK
            /\ last'.op_handle = last'.draw
            /\ \E i \in Slots : /\ operation_table'[i].handle = last'.draw
                                /\ operation_table'[i].operation = nextOp]_vars

\* The table was filled, its last operation was finished or aborted, and
\* the Begin after that returned OK: the objects before the one released
\* are live, and so is the one created after it.
C28_Witness ==
    /\ last.call = "Begin"
    /\ last.error = KM_ERROR_OK
    /\ nextOp = TableSize + 2
    /\ \A p \in 1..(TableSize - 1) : Holders(p) # {}
    /\ state[TableSize] \in {"finished", "aborted"}
    /\ Holders(TableSize + 1) # {}

\* ------------------------------------------- the claims on two calls
\* Both BeginOperation calls have returned OK.
BothReturnedOK ==
    /\ threads # NoThreads
    /\ \A t \in Threads : threads[t].pc = "done" /\ threads[t].error = KM_ERROR_OK

\* The calls share no slot, each call's operation is in the slot the call
\* took, and each handle resolves to the operation of its own call (where
\* the two draws differ: C4 lets them be equal).
NoSharedSlot ==
    /\ threads[1].i # threads[2].i
    /\ \A t \in Threads :
           /\ operation_table[threads[t].i].operation = threads[t].operation
           /\ heap[threads[t].operation] = 0
           /\ FindOperation(operation_table, threads[t].op_handle) # NULL
           /\ threads[1].op_handle # threads[2].op_handle =>
                  operation_table[FindOperation(operation_table,
                                                threads[t].op_handle)].operation
                      = threads[t].operation

C30_VerifyNeedsSignature ==
    (/\ response.call = "HmacFinish"
     /\ request.purpose = KM_PURPOSE_VERIFY
     /\ response.error = KM_ERROR_OK)
        => /\ request.signature # <<>>
           /\ Len(request.signature) <= Len(request.digest)
           /\ request.signature = SubSeq(request.digest, 1, Len(request.signature))

====
